---- MODULE Spec2Model ----
(***************************************************************************)
(* A model of the crawl/fetch orchestration engine of webscrape-pro:       *)
(*   - RetryManager            (middleware/retry.py)                       *)
(*   - TokenBucket             (middleware/rate_limiter.py)                *)
(*   - AdaptiveRateLimiter     (middleware/rate_limiter.py)                *)
(*   - CacheManager            (middleware/cache.py), memory backend       *)
(*   - SmartScraper.fetch      (core/scraper.py)                           *)
(*   - SmartScraper.crawl      (core/scraper.py)                           *)
(*   - AsyncScraper            (core/async_scraper.py)                     *)
(* Each component has its own specification (SpecRetry, SpecBucket,        *)
(* SpecAdapt, SpecCache, SpecFetch, SpecCrawl, SpecAsync); the variables   *)
(* of the other components are left unchanged by it. SpecExecute and       *)
(* SpecFetchers put two of them side by side.                              *)
(***************************************************************************)
EXTENDS Integers, Sequences, FiniteSets, TLC

VARIABLES
    \* ---- RetryManager (retry.py) ----
    max_retries,       \* self.max_retries
    base_delay,        \* self.base_delay
    max_delay,         \* self.max_delay
    exponential_base,  \* self.exponential_base
    retry_exceptions,  \* self.retry_exceptions: the set of caught error classes
    rpc,               \* position of execute: "idle","call","sleep","returned","raised"
    attempt,           \* the loop variable of execute
    last_exception,    \* the local last_exception of execute
    delay,             \* the delay of the pending sleep, in 1/DelayScale s
    rresult,           \* how execute ended: what it returned or raised
    calls,             \* history: the outcome of every call of func, in order
    sleeps,            \* history: <<attempt, delay>> of every time.sleep done
    \* ---- SmartScraper.crawl (scraper.py) ----
    max_pages,         \* argument max_pages
    same_domain,       \* argument same_domain
    link_filter,       \* argument link_filter: NoFilter or a predicate
    visited,           \* local set visited
    to_visit,          \* local list to_visit
    results,           \* local list results: the URL of each soup appended
    cpc,               \* position of crawl: "loop" or "done"
    fetchLog,          \* history: every call of self.scrape made by crawl
    firstEnq,          \* history: the URLs in the order of their first enqueue
    discovered,        \* history: every full_url the link loop has looked at
    soups,             \* what results holds: the links of each soup appended
    web,               \* the documents of the site, as far as they were seen
    first,             \* history: what an earlier crawl of the site gave
    \* ---- TokenBucket (rate_limiter.py) ----
    rate,              \* self.rate, in tokens per tick of the clock
    capacity,          \* self.capacity
    tokens,            \* self.tokens
    last_update,       \* self.last_update
    now,               \* time.time(), in ticks
    tpc,               \* per thread: "idle", or "sleep" inside a blocking acquire
    tcost,             \* per thread: the argument tokens of its acquire
    twait,             \* per thread: the deficit its wait_time was computed from
    tsince,            \* per thread: the time its sleep began
    granted,           \* history: the total cost of the acquires that returned True
    denied,            \* history: the number of acquires that returned False
    acalls,            \* history: the number of acquire calls made
    acq,               \* history: the arguments of the last acquire call
    \* ---- SlidingWindowRateLimiter (rate_limiter.py) ----
    max_requests,      \* self.max_requests
    window_seconds,    \* self.window_seconds, in ticks
    requests,          \* self.requests: the deque of timestamps
    wpc,               \* per thread: "idle", or "sleep" inside a blocking acquire
    wuntil,            \* per thread: the time its time.sleep(wait_time) ends
    admitted,          \* history: the timestamp of every acquire that returned True
    wdenied,           \* history: the number of acquires that returned False
    wcalls,            \* history: the number of acquire calls made
    wacq,              \* history: the argument blocking of the last acquire call
    \* ---- SmartScraper.fetch (scraper.py) ----
    use_cache,         \* self.config.use_cache: self.cache is a CacheManager
    cache,             \* self.cache.cache: the entries of the TTLCache
    fpc,               \* position of fetch
    furl,              \* argument url
    fresult,           \* how fetch ended: what it returned or raised
    ftrace,            \* history: the steps the current fetch has taken
    nfetch,            \* history: the number of fetch calls made
    follow_redirects,  \* self.config.follow_redirects
    murls,             \* argument urls of fetch_many
    mresults,          \* local list results of fetch_many
    mlog,              \* history: how each fetch called by fetch_many ended
    \* ---- CacheManager (cache.py), memory backend ----
    cmaxsize,          \* argument maxsize, given to the TTLCache
    cttl,              \* argument ttl, given to the TTLCache, in ticks
    lru,               \* the keys of the TTLCache, least recently used first
    cops,              \* history: the number of CacheManager calls made
    cres,              \* history: the last CacheManager call
    lastSet,           \* history: the last set call, its time and its ttl,
                       \*          and the unexpired entries it pushed out
    useOrder,          \* history: the keys set or got, last used last
    \* ---- AdaptiveRateLimiter (rate_limiter.py) ----
    current_rps,       \* self.current_rps, a fraction [n, d]
    min_rps,           \* self.min_rps
    max_rps,           \* self.max_rps
    abucket,           \* self.bucket: the rate, capacity and tokens it was built with
    nreports,          \* history: the number of report_response calls made
    last_status,       \* history: the argument of the last report_response
    prev_rps,          \* history: current_rps before the last report_response
    initial_rps,       \* the argument initial_rps of the constructor
    kpc,               \* per worker: its position in report_response
    knew,              \* per worker: the value it computed for current_rps
    kbucket,           \* per worker: the TokenBucket it has built
    reports,           \* history: the status of every report_response called
    lpc,               \* position of the caller of self.acquire(): "idle" or "sleep"
    lsleep,            \* the time.sleep of that caller: its start and its wait_time
    ladmitted,         \* history: the time of every self.acquire() that returned
    \* ---- AsyncScraper (async_scraper.py) ----
    amax_concurrent,   \* self.config.max_concurrent
    amax_retries,      \* self.config.max_retries
    aurls,             \* argument urls of fetch_many
    sem,               \* the value of self.semaphore
    tpcs,              \* per task of gather: the position of its fetch
    aattempt,          \* per task: the loop variable attempt
    aresult,           \* per task: what its fetch returned or raised
    areqs,             \* history, per task: the number of session.get calls
    apc,               \* position of fetch_many: "gather" or "done"
    aresults           \* what fetch_many returned: valid_results

retryVars == <<max_retries, base_delay, max_delay, exponential_base,
               retry_exceptions, rpc, attempt, last_exception, delay,
               rresult, calls, sleeps>>

crawlVars == <<max_pages, same_domain, link_filter, visited, to_visit,
               results, cpc, fetchLog, firstEnq, discovered,
               soups, web, first>>

twiceVars == <<soups, web, first>>

bucketVars == <<rate, capacity, tokens, last_update, now, tpc, tcost, twait,
                tsince, granted, denied, acalls, acq,
                max_requests, window_seconds, requests, wpc, wuntil,
                admitted, wdenied, wcalls, wacq>>

windowVars == <<max_requests, window_seconds, requests, wpc, wuntil,
                admitted, wdenied, wcalls, wacq>>

fetchVars == <<use_cache, cache, fpc, furl, fresult, ftrace, nfetch,
               follow_redirects, murls, mresults, mlog>>

manyVars == <<murls, mresults, mlog>>

cacheVars == <<cmaxsize, cttl, lru, cops, cres, lastSet, useOrder>>

adaptVars == <<current_rps, min_rps, max_rps, abucket, nreports, last_status,
               prev_rps, initial_rps, kpc, knew, kbucket, reports,
               lpc, lsleep, ladmitted>>

loopVars == <<lpc, lsleep, ladmitted>>

workerVars == <<initial_rps, kpc, knew, kbucket, reports>>

asyncVars == <<amax_concurrent, amax_retries, aurls, sem, tpcs, aattempt,
               aresult, areqs, apc, aresults>>

vars == <<retryVars, crawlVars, bucketVars, fetchVars, cacheVars, adaptVars,
          asyncVars>>

(***************************************************************************)
(* Bounds of the model.                                                    *)
(***************************************************************************)
MaxRetriesBound == 2    \* max_retries ranges over 0..MaxRetriesBound
RandSteps == 1          \* random() takes the values 0/RandSteps .. RandSteps/RandSteps
MaxPagesBound == 3      \* max_pages ranges over 0..MaxPagesBound
MaxLinks == 2           \* a fetched page holds at most MaxLinks links
MaxTime == 3            \* the clock runs from 0 to MaxTime
MaxCost == 2            \* acquire is called with tokens in 1..MaxCost
MaxAcquires == 3        \* acquire is called at most MaxAcquires times
NThreads == 2           \* the threads that call acquire
MaxFetches == 2         \* fetch is called at most MaxFetches times
MaxAttempt == 6         \* calculate_delay is examined for attempt in 0..MaxAttempt
MaxSizeBound == 2       \* maxsize ranges over 1..MaxSizeBound
MaxCacheOps == 4        \* the CacheManager is called at most MaxCacheOps times
MaxReports == 3         \* report_response is called at most MaxReports times
MaxUrls == 3            \* fetch_many is called with at most MaxUrls URLs
MaxRequestsBound == 2         \* max_requests of the sliding window is 1..MaxRequestsBound
MaxWindowBound == 2           \* window_seconds is 1..MaxWindowBound ticks
MaxConcurrentBound == 2 \* max_concurrent ranges over 1..MaxConcurrentBound
MaxAdmits == 3          \* the adaptive limiter admits at most MaxAdmits acquires

(***************************************************************************)
(* RetryManager                                                            *)
(***************************************************************************)

\* Error classes an operation can raise, and the values it can return (for
\* the request of fetch: the status code of the response).
ErrorClasses == {"Transport", "Programming"}
Values == {200, 301, 404, 429, 500}

\* An exception object: its class and its identity (the call that raised it).
Exc(cls, n) == [cls |-> cls, id |-> n]
NoExc == Exc("None", 0)

\* How a call ended: kind is "none" (not ended), "return" or "raise".
Returned(v) == [kind |-> "return", val |-> v, exc |-> NoExc]
Raised(e) == [kind |-> "raise", val |-> 0, exc |-> e]
NoResult == [kind |-> "none", val |-> 0, exc |-> NoExc]

RECURSIVE Pow(_, _)
Pow(b, n) == IF n = 0 THEN 1 ELSE b * Pow(b, n - 1)

Min(a, b) == IF a <= b THEN a ELSE b

\* Delays are kept exactly, as multiples of 1/DelayScale seconds, so that
\* delay * 0.25 and random.uniform(-jitter, jitter) lose nothing.
DelayScale == 4 * RandSteps

\* delay = min(base_delay * exponential_base ** attempt, max_delay)
BackoffDelay(att) == Min(base_delay * Pow(exponential_base, att), max_delay)

\* random.uniform(a, b) = a + (b - a) * random(), random() = r / RandSteps;
\* a and b are given in 1/4 s, the result is in 1/DelayScale s.
Uniform(a, b, r) == a * RandSteps + (b - a) * r

Jitter_Half(d) == 2 * d

\* jitter = delay * 0.25, in quarters of a second
Jitter(d) == d

\* calculate_delay(attempt), in 1/DelayScale s
calculate_delay(att, r) ==
    LET d == BackoffDelay(att)
        jitter == Jitter(d)
    IN  d * DelayScale + Uniform(-jitter, jitter, r)

Caught_Everything(cls) == TRUE

\* `except self.retry_exceptions as e` catches an exception of class cls
Caught(cls) == cls \in retry_exceptions

Remember_First(prev, e) == IF prev = NoExc THEN e ELSE prev

\* last_exception = e
Remember(prev, e) == e

SleepsAfter_Always(att) == TRUE

\* `if attempt < self.max_retries`: a sleep follows the failed attempt
SleepsAfter(att) == att < max_retries

LoopContinues_OffByOne(att) == att + 1 <= max_retries + 1

\* `for attempt in range(self.max_retries + 1)`: att + 1 is still in the range
LoopContinues(att) == att + 1 < max_retries + 1

\* try: return func(*args, **kwargs)      -- func returns v
ExecReturn(v) ==
    /\ rpc = "call"
    /\ calls' = Append(calls, Returned(v))
    /\ rresult' = Returned(v)
    /\ rpc' = "returned"
    /\ UNCHANGED <<max_retries, base_delay, max_delay, exponential_base,
                   retry_exceptions, attempt, last_exception, delay, sleeps>>

\* func raises an exception of class cls; r is what random() gives to
\* calculate_delay if it is called
ExecRaise(cls, r) ==
    /\ rpc = "call"
    /\ LET e == Exc(cls, Len(calls) + 1) IN
       /\ calls' = Append(calls, Raised(e))
       /\ IF Caught(cls)
            THEN /\ last_exception' = Remember(last_exception, e)
                 /\ IF SleepsAfter(attempt)
                      THEN /\ delay' = calculate_delay(attempt, r)
                           /\ rpc' = "sleep"
                           /\ UNCHANGED <<rresult, attempt>>
                      ELSE /\ UNCHANGED delay
                           /\ IF LoopContinues(attempt)
                                THEN /\ attempt' = attempt + 1
                                     /\ rpc' = "call"
                                     /\ UNCHANGED rresult
                                ELSE \* the loop ends: raise last_exception
                                     /\ rpc' = "raised"
                                     /\ rresult' = Raised(last_exception')
                                     /\ UNCHANGED attempt
            ELSE \* not caught: the exception leaves execute
                 /\ rpc' = "raised"
                 /\ rresult' = Raised(e)
                 /\ UNCHANGED <<last_exception, delay, attempt>>
    /\ UNCHANGED <<max_retries, base_delay, max_delay, exponential_base,
                   retry_exceptions, sleeps>>

\* time.sleep(delay) returns; the for loop goes to its next attempt
ExecSleep ==
    /\ rpc = "sleep"
    /\ sleeps' = Append(sleeps, <<attempt, delay>>)
    /\ IF LoopContinues(attempt)
         THEN /\ attempt' = attempt + 1
              /\ rpc' = "call"
              /\ UNCHANGED rresult
         ELSE /\ rpc' = "raised"
              /\ rresult' = Raised(last_exception)
              /\ UNCHANGED attempt
    /\ UNCHANGED <<max_retries, base_delay, max_delay, exponential_base,
                   retry_exceptions, last_exception, delay, calls>>

\* The state of one execute call at its entry.
ExecStart ==
    /\ rpc = "call"
    /\ attempt = 0
    /\ last_exception = NoExc
    /\ delay = 0
    /\ rresult = NoResult
    /\ calls = <<>>
    /\ sleeps = <<>>

\* RetryManager.__init__ with the caller's arguments (the retry decorator
\* passes max_retries, delay and exceptions).
RetryConfig ==
    /\ max_retries \in 0..MaxRetriesBound
    /\ base_delay \in {1, 2}
    /\ max_delay \in {3, 60}
    /\ exponential_base \in {2, 3}
    /\ retry_exceptions \in {ErrorClasses, {"Transport"}}

(***************************************************************************)
(* SmartScraper.crawl                                                      *)
(***************************************************************************)

Netlocs == {"a.example", "other.example"}
Paths == {"/", "/x", "/y"}

\* An absolute URL, as urlparse sees it.
Url(n, p) == [scheme |-> "https", netloc |-> n, path |-> p]
URLs == {Url(n, p) : n \in Netlocs, p \in Paths}

\* The href of an <a>: a path relative to the page, or an absolute URL.
RelHref(p) == [abs |-> FALSE, scheme |-> "", netloc |-> "", path |-> p]
AbsHref(n, p) == [abs |-> TRUE, scheme |-> "https", netloc |-> n, path |-> p]
Hrefs == {RelHref("/x"), RelHref("/y"), AbsHref("a.example", "/"),
          AbsHref("other.example", "/x")}

\* The lists of hrefs soup.find_all('a', href=True) can give for a page.
LinkLists == UNION {[1..n -> Hrefs] : n \in 0..MaxLinks}

\* urljoin(url, href)
urljoin(url, href) ==
    IF href.abs
      THEN [scheme |-> href.scheme, netloc |-> href.netloc, path |-> href.path]
      ELSE [scheme |-> url.scheme, netloc |-> url.netloc, path |-> href.path]

\* urlparse(url).netloc
netloc(url) == url.netloc

start_url == Url("a.example", "/")

\* base_domain = urlparse(start_url).netloc
base_domain == netloc(start_url)

\* link_filter is None, or a predicate given by the URLs it accepts.
NoFilter == [given |-> FALSE, accept |-> {}]
Filter(S) == [given |-> TRUE, accept |-> S]
LinkFilters == {NoFilter, Filter({u \in URLs : u.path # "/y"}),
                Filter({u \in URLs : u.path = "/x"})}

LoopCond_OffByOne == to_visit # <<>> /\ Cardinality(visited) <= max_pages

\* `while to_visit and len(visited) < max_pages`
LoopCond == to_visit # <<>> /\ Cardinality(visited) < max_pages

DomainSkips_Never(full_url) == FALSE

\* `if same_domain and urlparse(full_url).netloc != base_domain: continue`
DomainSkips(full_url) == same_domain /\ netloc(full_url) # base_domain

FilterSkips_Never(full_url) == FALSE

\* `if link_filter and not link_filter(full_url): continue`
FilterSkips(full_url) == link_filter.given /\ full_url \notin link_filter.accept

\* `if full_url not in visited: to_visit.append(full_url)`
Appends(full_url, vis) ==
    /\ ~DomainSkips(full_url)
    /\ ~FilterSkips(full_url)
    /\ full_url \notin vis

\* The link loop over the hrefs ls of the page at url: what it appends.
RECURSIVE NewLinks(_, _, _)
NewLinks(url, ls, vis) ==
    IF ls = <<>> THEN <<>>
    ELSE LET full_url == urljoin(url, Head(ls)) IN
         (IF Appends(full_url, vis) THEN <<full_url>> ELSE <<>>)
         \o NewLinks(url, Tail(ls), vis)

\* The full_urls of the hrefs ls of the page at url.
FullUrls(url, ls) == {urljoin(url, ls[i]) : i \in 1..Len(ls)}

SeqToSet(q) == {q[i] : i \in 1..Len(q)}

\* q followed by the elements of new that are in neither, once each.
RECURSIVE AppendFirsts(_, _)
AppendFirsts(q, new) ==
    IF new = <<>> THEN q
    ELSE AppendFirsts(IF Head(new) \in SeqToSet(q) THEN q
                      ELSE Append(q, Head(new)), Tail(new))

\* visited.add(url) after a successful scrape
MarkFetched(vis, url) == vis \cup {url}

\* what the except branch does to visited: nothing
MarkFailed(vis, url) == vis

\* One entry of fetchLog: the URL scraped, whether scrape returned, and how
\* many pages had been fetched successfully when it was called.
Fetch(url, ok) == [url |-> url, ok |-> ok, before |-> Len(results)]

\* url = to_visit.pop(0); if url in visited: continue
CrawlSkip ==
    /\ cpc = "loop"
    /\ LoopCond
    /\ Head(to_visit) \in visited
    /\ to_visit' = Tail(to_visit)
    /\ UNCHANGED <<max_pages, same_domain, link_filter, visited, results,
                   cpc, fetchLog, firstEnq, discovered>>

\* One iteration in which self.scrape(url) returns a soup whose links are ls.
\* (An exception raised inside the link loop, by urljoin or by link_filter,
\* leaves the state of an iteration whose page held the links before it.)
CrawlFetchOk(ls) ==
    /\ cpc = "loop"
    /\ LoopCond
    /\ LET url == Head(to_visit)
           vis == MarkFetched(visited, url)
           new == NewLinks(url, ls, vis)
       IN  /\ url \notin visited
           /\ visited' = vis
           /\ results' = Append(results, url)
           /\ to_visit' = Tail(to_visit) \o new
           /\ fetchLog' = Append(fetchLog, Fetch(url, TRUE))
           /\ firstEnq' = AppendFirsts(firstEnq, new)
           /\ discovered' = discovered \cup FullUrls(url, ls)
    /\ UNCHANGED <<max_pages, same_domain, link_filter, cpc>>

\* `except Exception as e: logger.error(...)`: where crawl is after the
\* error of one iteration
AfterError_Stops(pc) == "done"
AfterError(pc) == pc

FrontierAfterError_Requeued(q, url) == Append(q, url)

\* what the except branch does to to_visit, from which url was popped:
\* nothing
FrontierAfterError(q, url) == q

\* One iteration in which self.scrape(url) raises: the error is logged.
CrawlFetchFail ==
    /\ cpc = "loop"
    /\ LoopCond
    /\ LET url == Head(to_visit) IN
           /\ url \notin visited
           /\ visited' = MarkFailed(visited, url)
           /\ to_visit' = FrontierAfterError(Tail(to_visit), url)
           /\ fetchLog' = Append(fetchLog, Fetch(url, FALSE))
    /\ cpc' = AfterError(cpc)
    /\ UNCHANGED <<max_pages, same_domain, link_filter, results,
                   firstEnq, discovered>>

\* The loop condition is false: return results
CrawlReturn ==
    /\ cpc = "loop"
    /\ ~LoopCond
    /\ cpc' = "done"
    /\ UNCHANGED <<max_pages, same_domain, link_filter, visited, to_visit,
                   results, fetchLog, firstEnq, discovered>>

\* The arguments of crawl.
CrawlArgs ==
    /\ max_pages \in 0..MaxPagesBound
    /\ same_domain \in BOOLEAN
    /\ link_filter \in LinkFilters

\* No crawl has been made yet.
NotYet == [done |-> FALSE, soups |-> <<>>, failed |-> {}]

\* Nothing has been seen of the site.
TwiceStart ==
    /\ soups = <<>>
    /\ web = <<>>
    /\ first = NotYet

\* The state of crawl when it enters its loop.
CrawlStart ==
    /\ TwiceStart
    /\ visited = {}
    /\ to_visit = <<start_url>>
    /\ results = <<>>
    /\ cpc = "loop"
    /\ fetchLog = <<>>
    /\ firstEnq = <<start_url>>
    /\ discovered = {}

\* No crawl is running.
CrawlIdle ==
    /\ TwiceStart
    /\ max_pages = 0
    /\ same_domain = TRUE
    /\ link_filter = NoFilter
    /\ visited = {}
    /\ to_visit = <<>>
    /\ results = <<>>
    /\ cpc = "done"
    /\ fetchLog = <<>>
    /\ firstEnq = <<>>
    /\ discovered = {}

\* No execute is running.
RetryIdle ==
    /\ max_retries = 0
    /\ base_delay = 1
    /\ max_delay = 60
    /\ exponential_base = 2
    /\ retry_exceptions = ErrorClasses
    /\ rpc = "idle"
    /\ attempt = 0
    /\ last_exception = NoExc
    /\ delay = 0
    /\ rresult = NoResult
    /\ calls = <<>>
    /\ sleeps = <<>>

(***************************************************************************)
(* TokenBucket                                                             *)
(***************************************************************************)

Threads == 1..NThreads

\* _add_tokens: min(self.capacity, self.tokens + elapsed * self.rate)
Refilled(tok, elapsed) == Min(capacity, tok + elapsed * rate)

\* `self.tokens -= tokens`
Deduct(tok, cost) == tok - cost

\* time.sleep(wait_time) with wait_time = deficit / self.rate has returned:
\* at least wait_time has passed since the sleep began
SleptEnough(t) == (now - tsince[t]) * rate >= twait[t]

\* `with self._lock:` of a caller that enters acquire, the callers being at
\* pcs: the lock is free, since a caller leaves the `with` block before its
\* time.sleep and the locked sections are steps of their own
LockFree_HeldInSleep(pcs) == \A u \in Threads : pcs[u] = "idle"
LockFree(pcs) == TRUE

\* `if self.tokens >= tokens`
Enough_Always(tok, cost) == TRUE
Enough(tok, cost) == tok >= cost

\* no acquire call has been made
NoAcquire == [cost |-> 0, blocking |-> FALSE]

\* Thread t calls acquire(tokens=cost, blocking): the first locked section.
\* The threads run the same code, so of the threads that are outside
\* acquire the one with the lowest number makes the call.
AcquireEnter(t, cost, blocking) ==
    /\ tpc[t] = "idle"
    /\ \A u \in Threads : u < t => tpc[u] # "idle"
    /\ LockFree(tpc)
    /\ acalls < MaxAcquires
    /\ acalls' = acalls + 1
    /\ acq' = [cost |-> cost, blocking |-> blocking]
    /\ LET tok == Refilled(tokens, now - last_update) IN
       /\ last_update' = now
       /\ IF Enough(tok, cost)
            THEN \* return True
                 /\ tokens' = Deduct(tok, cost)
                 /\ granted' = granted + cost
                 /\ UNCHANGED <<tpc, tcost, twait, tsince, denied>>
            ELSE /\ tokens' = tok
                 /\ IF ~blocking
                      THEN \* return False
                           /\ denied' = denied + 1
                           /\ UNCHANGED <<tpc, tcost, twait, tsince, granted>>
                      ELSE \* deficit = tokens - self.tokens, wait_time = deficit / self.rate;
                           \* the lock is left and time.sleep(wait_time) begins
                           /\ tpc' = [tpc EXCEPT ![t] = "sleep"]
                           /\ tcost' = [tcost EXCEPT ![t] = cost]
                           /\ twait' = [twait EXCEPT ![t] = cost - tok]
                           /\ tsince' = [tsince EXCEPT ![t] = now]
                           /\ UNCHANGED <<granted, denied>>
    /\ UNCHANGED <<rate, capacity, now>>

\* Thread t wakes from time.sleep(wait_time): the second locked section.
AcquireWake(t) ==
    /\ tpc[t] = "sleep"
    /\ SleptEnough(t)
    /\ tokens' = Deduct(Refilled(tokens, now - last_update), tcost[t])
    /\ last_update' = now
    /\ granted' = granted + tcost[t]
    /\ tpc' = [tpc EXCEPT ![t] = "idle"]
    \* return True: the locals of the call are gone
    /\ tcost' = [tcost EXCEPT ![t] = 0]
    /\ twait' = [twait EXCEPT ![t] = 0]
    /\ tsince' = [tsince EXCEPT ![t] = 0]
    /\ UNCHANGED <<rate, capacity, now, denied, acalls, acq>>

\* The clock advances.
Tick ==
    /\ now < MaxTime
    /\ now' = now + 1
    /\ UNCHANGED <<rate, capacity, tokens, last_update, tpc, tcost, twait,
                   tsince, granted, denied, acalls, acq>>

(***************************************************************************)
(* SlidingWindowRateLimiter                                                *)
(***************************************************************************)

\* `self.requests[0] < cutoff`, cutoff = time.time() - self.window_seconds
TooOld_Inclusive(ts) == ts <= now - window_seconds
TooOld(ts) == ts < now - window_seconds

\* _clean_old_requests: popleft while the oldest timestamp is too old
RECURSIVE CleanOld(_)
CleanOld(q) ==
    IF q # <<>> /\ TooOld(Head(q)) THEN CleanOld(Tail(q)) ELSE q

\* `if len(self.requests) < self.max_requests`
HasRoom(q) == Len(q) < max_requests

\* One pass of thread t through the locked section of acquire.
WindowPass(t, blocking) ==
    LET q == CleanOld(requests) IN
    IF HasRoom(q)
      THEN \* self.requests.append(time.time()); return True
           /\ requests' = Append(q, now)
           /\ admitted' = Append(admitted, now)
           /\ wpc' = [wpc EXCEPT ![t] = "idle"]
           /\ wuntil' = [wuntil EXCEPT ![t] = 0]
           /\ UNCHANGED wdenied
      ELSE /\ requests' = q
           /\ UNCHANGED admitted
           /\ IF ~blocking
                THEN \* return False
                     /\ wdenied' = wdenied + 1
                     /\ UNCHANGED <<wpc, wuntil>>
                ELSE \* wait_time = self.requests[0] + self.window_seconds
                     \*             - time.time(); the lock is left and, if
                     \* wait_time > 0, time.sleep(wait_time) begins
                     /\ wpc' = [wpc EXCEPT ![t] = "sleep"]
                     /\ wuntil' = [wuntil EXCEPT ![t] =
                                      Head(q) + window_seconds]
                     /\ UNCHANGED wdenied

\* Thread t calls acquire(blocking). The threads run the same code, so of
\* the threads that are outside acquire the one with the lowest number
\* makes the call.
WindowEnter(t, blocking) ==
    /\ wpc[t] = "idle"
    /\ \A u \in Threads : u < t => wpc[u] # "idle"
    /\ LockFree(wpc)
    /\ wcalls < MaxAcquires
    /\ wcalls' = wcalls + 1
    /\ wacq' = blocking
    /\ WindowPass(t, blocking)
    /\ UNCHANGED <<max_requests, window_seconds>>

\* Thread t is back from time.sleep(wait_time), or did not sleep because
\* wait_time was not positive: `while True` takes it through the locked
\* section again.
WindowRetry(t) ==
    /\ wpc[t] = "sleep"
    /\ now >= wuntil[t]
    /\ WindowPass(t, TRUE)
    /\ UNCHANGED <<max_requests, window_seconds, wcalls, wacq>>

\* SlidingWindowRateLimiter(max_requests, window_seconds)
WindowStart ==
    /\ max_requests \in 1..MaxRequestsBound
    /\ window_seconds \in 1..MaxWindowBound
    /\ requests = <<>>
    /\ wpc = [t \in Threads |-> "idle"]
    /\ wuntil = [t \in Threads |-> 0]
    /\ admitted = <<>>
    /\ wdenied = 0
    /\ wcalls = 0
    /\ wacq = FALSE

\* No sliding-window limiter is in use.
WindowIdle ==
    /\ max_requests = 1
    /\ window_seconds = 1
    /\ requests = <<>>
    /\ wpc = [t \in Threads |-> "idle"]
    /\ wuntil = [t \in Threads |-> 0]
    /\ admitted = <<>>
    /\ wdenied = 0
    /\ wcalls = 0
    /\ wacq = FALSE

\* TokenBucket.__init__(rate, capacity); the adaptive wrapper builds
\* TokenBucket(rps, int(rps * 2)).
BucketStart ==
    /\ WindowIdle
    /\ rate \in {1, 2}
    /\ capacity \in {1, 2 * rate}
    /\ tokens = capacity
    /\ last_update = 0
    /\ now = 0
    /\ tpc = [t \in Threads |-> "idle"]
    /\ tcost = [t \in Threads |-> 0]
    /\ twait = [t \in Threads |-> 0]
    /\ tsince = [t \in Threads |-> 0]
    /\ granted = 0
    /\ denied = 0
    /\ acalls = 0
    /\ acq = NoAcquire

\* No bucket is in use.
BucketUnused ==
    /\ rate = 1
    /\ capacity = 1
    /\ tokens = 1
    /\ last_update = 0
    /\ now = 0
    /\ tpc = [t \in Threads |-> "idle"]
    /\ tcost = [t \in Threads |-> 0]
    /\ twait = [t \in Threads |-> 0]
    /\ tsince = [t \in Threads |-> 0]
    /\ granted = 0
    /\ denied = 0
    /\ acalls = 0
    /\ acq = NoAcquire

\* No limiter is in use.
BucketIdle == BucketUnused /\ WindowIdle

(***************************************************************************)
(* SmartScraper.fetch                                                      *)
(***************************************************************************)

\* The URLs fetch is called with: two well-formed ones, one whose scheme
\* the validator does not allow, one with no network location.
FtpUrl == [scheme |-> "ftp", netloc |-> "a.example", path |-> "/x"]
NoHostUrl == [scheme |-> "https", netloc |-> "", path |-> "/x"]
FetchUrls == {Url("a.example", "/"), Url("a.example", "/x"), FtpUrl, NoHostUrl}

\* URLValidator.allowed_schemes
allowed_schemes == {"http", "https"}

\* URLValidator.validate(url) returns True (it raises ValueError otherwise)
validate_Anything(url) == TRUE
validate(url) ==
    /\ url.netloc # ""                   \* validators.url(url), parsed.netloc
    /\ url.scheme \in allowed_schemes

\* hashlib.md5(x.encode()).hexdigest()
md5(x) == [md5 |-> x]

\* cache_key = hashlib.md5(url.encode()).hexdigest()
cache_key(url) == md5(url)

\* CacheManager._make_key(key)
make_key(key) == md5(key)

\* CacheManager.__init__: the defaults maxsize=1000 and ttl=3600; one tick
\* of the clock is 1800 s
DefaultMaxsize == 1000
CacheTtl == 2

\* TTLCache(maxsize=maxsize, ttl=ttl): the number of entries the TTLCache
\* is told to hold
Capacity_PlusOne == cmaxsize + 1
Capacity == cmaxsize

KeysOf(c) == {e.key : e \in c}

\* `cache_key in self.cache` of the TTLCache: present and not expired
Live(c, k) == \E e \in c : e.key = k /\ now < e.expires

\* TTLCache.expire(): what is left when the expired entries are dropped
Expire(c) == {e \in c : now < e.expires}

\* the order l without the keys of S
Without(l, S) == SelectSeq(l, LAMBDA k : k \notin S)

\* TTLCache.__setitem__ of a key the cache does not hold: popitem() drops
\* entries from the least recently used end until one more entry fits
Evicted(c, l) ==
    LET n == Cardinality(c) + 1 - Capacity
    IN  {l[i] : i \in 1..Min(n, Len(l))}

\* the keys that leave the TTLCache when key is stored: the expired ones,
\* and the ones evicted to make room
Dropped(c, l, key) ==
    LET c1 == Expire(c)
        gone == KeysOf(c) \ KeysOf(c1)
    IN  IF make_key(key) \in KeysOf(c1)
          THEN gone
          ELSE gone \cup Evicted(c1, Without(l, gone))

\* CacheManager.has(key)
CacheHas(c, key) == Live(c, make_key(key))

\* The value None that TTLCache.get gives for a key it does not hold.
NoResponse == 0

\* CacheManager.get(key): self.cache.get(cache_key)
CacheGet(c, key) ==
    IF Live(c, make_key(key))
      THEN (CHOOSE e \in c : e.key = make_key(key)).val
      ELSE NoResponse

\* self.cache.get(cache_key) of a key that is held makes it the most
\* recently used one
LruGet(c, l, key) ==
    IF Live(c, make_key(key))
      THEN Append(Without(l, {make_key(key)}), make_key(key))
      ELSE l

\* CacheManager.set(key, value, ttl) of the memory backend:
\* self.cache[cache_key] = value. The argument ttl is not used: the TTLCache
\* stamps the entry with the ttl it was built with.
CacheSet(c, l, key, value, ttl) ==
    {e \in c : e.key \notin Dropped(c, l, key) \cup {make_key(key)}}
    \cup {[key |-> make_key(key), val |-> value, expires |-> now + cttl]}

\* the key stored is the most recently used one
LruSet(c, l, key) ==
    Append(Without(l, Dropped(c, l, key) \cup {make_key(key)}), make_key(key))

\* CacheManager.delete(key): `if cache_key in self.cache: del ...`
CacheDelete_All(c, key) == {}
CacheDelete(c, key) ==
    IF Live(c, make_key(key)) THEN {e \in c : e.key # make_key(key)} ELSE c

LruDelete(c, l, key) ==
    IF Live(c, make_key(key)) THEN Without(l, {make_key(key)}) ELSE l

\* The keys, values and ttl arguments CacheManager is called with.
\* There is one key more than the largest cache holds; a ttl is half an
\* hour, or longer than the default.
CacheKeys == 1..(MaxSizeBound + 1)
CacheVals == {200, 301}
LongTtl == CacheTtl + 1
TtlArgs == {1, LongTtl}

NoCall == [op |-> "none", key |-> 0]
NeverSet == [set |-> FALSE, key |-> 0, val |-> NoResponse, at |-> 0, ttl |-> 0,
             out |-> {}]

\* A caller calls a method of the CacheManager: the call is counted and
\* remembered. The keys are numbered in the order of their first set.
CacheCall(op, key) ==
    /\ fpc = "off"
    /\ cops < MaxCacheOps
    /\ key <= Len(useOrder) + 1
    /\ cops' = cops + 1
    /\ cres' = [op |-> op, key |-> key]
    /\ UNCHANGED <<cmaxsize, cttl>>
    /\ UNCHANGED <<use_cache, fpc, furl, fresult, ftrace, nfetch,
                   follow_redirects>>

\* cache.set(key, value, ttl)
CacheOpSet(key, value, ttl) ==
    /\ CacheCall("set", key)
    /\ cache' = CacheSet(cache, lru, key, value, ttl)
    /\ lru' = LruSet(cache, lru, key)
    /\ lastSet' = [set |-> TRUE, key |-> key, val |-> value, at |-> now,
                   ttl |-> ttl,
                   out |-> {e \in Expire(cache) :
                               e.key \in Dropped(cache, lru, key)}]
    /\ useOrder' = Append(Without(useOrder, {key}), key)

\* cache.get(key)
CacheOpGet(key) ==
    /\ CacheCall("get", key)
    /\ lru' = LruGet(cache, lru, key)
    /\ useOrder' = IF CacheHas(cache, key)
                     THEN Append(Without(useOrder, {key}), key)
                     ELSE useOrder
    /\ UNCHANGED <<cache, lastSet>>

\* cache.has(key)
CacheOpHas(key) ==
    /\ CacheCall("has", key)
    /\ UNCHANGED <<cache, lru, lastSet, useOrder>>

\* cache.delete(key)
CacheOpDelete(key) ==
    /\ CacheCall("delete", key)
    /\ cache' = CacheDelete(cache, key)
    /\ lru' = LruDelete(cache, lru, key)
    /\ UNCHANGED <<lastSet, useOrder>>

\* cache.clear()
CacheOpClear ==
    /\ CacheCall("clear", 0)
    /\ cache' = {}
    /\ lru' = <<>>
    /\ UNCHANGED <<lastSet, useOrder>>

\* CacheManager() with its defaults, as SmartScraper builds it; nothing has
\* been stored
CacheDefault ==
    /\ cmaxsize = DefaultMaxsize
    /\ cttl = CacheTtl
    /\ lru = <<>>
    /\ cops = 0
    /\ cres = NoCall
    /\ lastSet = NeverSet
    /\ useOrder = <<>>

\* CacheManager(backend='memory', maxsize=..., ttl=...)
CacheStart ==
    /\ cmaxsize \in 1..MaxSizeBound
    /\ cttl \in {CacheTtl, LongTtl}
    /\ lru = <<>>
    /\ cops = 0
    /\ cres = NoCall
    /\ lastSet = NeverSet
    /\ useOrder = <<>>

\* allow_redirects=self.config.follow_redirects: session.get follows a
\* redirect response when it is set, and returns it when it is not
IsRedirect(status) == status >= 300 /\ status < 400

\* response.raise_for_status() raises HTTPError
RaisesForStatus_ServerOnly(status) == status >= 500 /\ status < 600
RaisesForStatus(status) == status >= 400 /\ status < 600

HTTPError == Exc("HTTPError", 0)
ValueError == Exc("ValueError", 0)

Step(ev) == ftrace' = Append(ftrace, ev)

\* A caller calls fetch(url).
FetchCall(url) ==
    /\ fpc \in {"idle", "returned", "raised"}
    /\ nfetch < MaxFetches
    /\ nfetch' = nfetch + 1
    /\ furl' = url
    /\ fpc' = "validate"
    /\ fresult' = NoResult
    /\ ftrace' = <<>>
    \* the locals of the execute call of the fetch before are gone
    /\ rpc' = "idle"
    /\ attempt' = 0
    /\ last_exception' = NoExc
    /\ delay' = 0
    /\ rresult' = NoResult
    /\ calls' = <<>>
    /\ sleeps' = <<>>
    /\ UNCHANGED <<max_retries, base_delay, max_delay, exponential_base,
                   retry_exceptions>>
    /\ UNCHANGED <<use_cache, cache, follow_redirects>>
    /\ UNCHANGED cacheVars

\* self.validator.validate(url)
FetchValidate ==
    /\ fpc = "validate"
    /\ Step("validate")
    /\ IF validate(furl)
         THEN fpc' = "has" /\ UNCHANGED fresult
         ELSE fpc' = "raised" /\ fresult' = Raised(ValueError)
    /\ UNCHANGED <<use_cache, cache, furl, nfetch, follow_redirects>>
    /\ UNCHANGED cacheVars

\* where fetch goes after `self.cache.has(cache_key)`: to the return of the
\* cached value, or on to the politeness delay
AfterHas_Refetch(hit) == "delay"
AfterHas(hit) == IF hit THEN "get" ELSE "delay"

\* `if self.cache and self.cache.has(cache_key)`
FetchHas ==
    /\ fpc = "has"
    /\ IF use_cache
         THEN /\ Step("has")
              /\ fpc' = AfterHas(CacheHas(cache, cache_key(furl)))
         ELSE /\ fpc' = "delay"
              /\ UNCHANGED ftrace
    /\ UNCHANGED <<use_cache, cache, furl, fresult, nfetch, follow_redirects>>
    /\ UNCHANGED cacheVars

\* `return self.cache.get(cache_key)`
FetchGet ==
    /\ fpc = "get"
    /\ Step("get")
    /\ fresult' = Returned(CacheGet(cache, cache_key(furl)))
    /\ fpc' = "returned"
    /\ lru' = LruGet(cache, lru, cache_key(furl))
    /\ UNCHANGED <<use_cache, cache, furl, nfetch, follow_redirects>>
    /\ UNCHANGED <<cmaxsize, cttl, cops, cres, lastSet, useOrder>>

\* self._apply_delay(), then the request is prepared and
\* self.retry_manager.execute(_do_request) is entered
FetchDelay ==
    /\ fpc = "delay"
    /\ Step("delay")
    /\ fpc' = "execute"
    /\ rpc' = "call"
    /\ attempt' = 0
    /\ last_exception' = NoExc
    /\ delay' = 0
    /\ rresult' = NoResult
    /\ calls' = <<>>
    /\ sleeps' = <<>>
    /\ UNCHANGED <<max_retries, base_delay, max_delay, exponential_base,
                   retry_exceptions>>
    /\ UNCHANGED <<use_cache, cache, furl, fresult, nfetch, follow_redirects>>
    /\ UNCHANGED cacheVars

\* _do_request: self.session.get(url, ...) gives a response of this status
FetchRequestReturns(status) ==
    /\ fpc = "execute"
    /\ IsRedirect(status) => ~follow_redirects
    /\ ExecReturn(status)
    /\ Step("request")
    /\ UNCHANGED <<use_cache, cache, fpc, furl, fresult, nfetch,
                   follow_redirects>>
    /\ UNCHANGED cacheVars

\* _do_request: self.session.get(url, ...) raises
FetchRequestRaises(cls, r) ==
    /\ fpc = "execute"
    /\ ExecRaise(cls, r)
    /\ Step("request")
    /\ UNCHANGED <<use_cache, cache, fpc, furl, fresult, nfetch,
                   follow_redirects>>
    /\ UNCHANGED cacheVars

\* the backoff sleep of execute
FetchBackoff ==
    /\ fpc = "execute"
    /\ ExecSleep
    /\ Step("backoff")
    /\ UNCHANGED <<use_cache, cache, fpc, furl, fresult, nfetch,
                   follow_redirects>>
    /\ UNCHANGED cacheVars

\* execute raised: the exception leaves fetch
FetchExecuteRaised ==
    /\ fpc = "execute"
    /\ rpc = "raised"
    /\ fresult' = rresult
    /\ fpc' = "raised"
    /\ UNCHANGED <<use_cache, cache, furl, ftrace, nfetch, follow_redirects>>
    /\ UNCHANGED cacheVars

\* execute returned the response: raise_for_status, cache it, return it
FetchExecuteReturned ==
    /\ fpc = "execute"
    /\ rpc = "returned"
    /\ IF RaisesForStatus(rresult.val)
         THEN /\ fresult' = Raised(HTTPError)
              /\ fpc' = "raised"
              /\ UNCHANGED <<cache, lru, ftrace>>
         ELSE /\ IF use_cache
                   THEN /\ cache' = CacheSet(cache, lru, cache_key(furl),
                                             rresult.val, CacheTtl)
                        /\ lru' = LruSet(cache, lru, cache_key(furl))
                        /\ Step("set")
                   ELSE UNCHANGED <<cache, lru, ftrace>>
              /\ fresult' = rresult
              /\ fpc' = "returned"
    /\ UNCHANGED <<use_cache, furl, nfetch, follow_redirects>>
    /\ UNCHANGED <<cmaxsize, cttl, cops, cres, lastSet, useOrder>>

\* what a method of the cache raises when it fails
CacheError == Exc("CacheError", 0)

\* `self.cache.has(cache_key)` raises: nothing in fetch catches it
FetchHasRaises ==
    /\ fpc = "has"
    /\ use_cache
    /\ Step("has")
    /\ fpc' = "raised"
    /\ fresult' = Raised(CacheError)
    /\ UNCHANGED <<use_cache, cache, furl, nfetch, follow_redirects>>
    /\ UNCHANGED cacheVars

\* `self.cache.get(cache_key)` raises
FetchGetRaises ==
    /\ fpc = "get"
    /\ Step("get")
    /\ fpc' = "raised"
    /\ fresult' = Raised(CacheError)
    /\ UNCHANGED <<use_cache, cache, furl, nfetch, follow_redirects>>
    /\ UNCHANGED cacheVars

\* execute returned a response that passes raise_for_status, and
\* `self.cache.set(cache_key, response, ttl=...)` raises
FetchSetRaises ==
    /\ fpc = "execute"
    /\ rpc = "returned"
    /\ ~RaisesForStatus(rresult.val)
    /\ use_cache
    /\ Step("set")
    /\ fpc' = "raised"
    /\ fresult' = Raised(CacheError)
    /\ UNCHANGED <<use_cache, cache, furl, nfetch, follow_redirects>>
    /\ UNCHANGED cacheVars

\* SmartScraper.__init__: RetryManager(max_retries=self.config.max_retries)
\* with its defaults, CacheManager() if use_cache
FetchStart ==
    /\ max_retries \in 0..MaxRetriesBound
    /\ base_delay = 1
    /\ max_delay = 60
    /\ exponential_base = 2
    /\ retry_exceptions = ErrorClasses          \* (Exception,)
    /\ rpc = "idle"
    /\ attempt = 0
    /\ last_exception = NoExc
    /\ delay = 0
    /\ rresult = NoResult
    /\ calls = <<>>
    /\ sleeps = <<>>
    /\ use_cache \in BOOLEAN
    /\ follow_redirects \in BOOLEAN
    /\ cache = {}
    /\ fpc = "idle"
    /\ furl = start_url
    /\ fresult = NoResult
    /\ ftrace = <<>>
    /\ nfetch = 0

\* The None of Python, where a Response is expected.
NoUrl == [scheme |-> "", netloc |-> "", path |-> ""]
None == [url |-> NoUrl, status |-> NoResponse]

\* The requests.Response that the fetch of url returned.
Response(url, status) == [url |-> url, status |-> status]

\* What fetch_many appends for a fetch of url that ended as res:
\* `results.append(response)`, or `results.append(None)` in the except branch
ManyItem(url, res) ==
    IF res.kind = "raise" THEN None
    ELSE IF res.val = NoResponse THEN None
    ELSE Response(url, res.val)

\* `for url in urls: ... response = self.fetch(url, **kwargs)`
ManyFetch ==
    /\ nfetch = Len(mresults)
    /\ Len(mresults) < Len(murls)
    /\ FetchCall(murls[Len(mresults) + 1])
    /\ UNCHANGED manyVars

\* the fetch of the iteration has ended: its response, or None, is appended
ManyAppend ==
    /\ nfetch = Len(mresults) + 1
    /\ fpc \in {"returned", "raised"}
    /\ mresults' = Append(mresults, ManyItem(furl, fresult))
    /\ mlog' = Append(mlog, fresult)
    /\ UNCHANGED <<use_cache, cache, fpc, furl, fresult, ftrace, nfetch,
                   follow_redirects, murls>>
    /\ UNCHANGED cacheVars

\* `return results`: the loop of fetch_many is over
ManyDone == Len(mresults) = Len(murls)

\* The lists of URLs fetch_many is called with.
ManyArgs ==
    /\ murls \in UNION {[1..n -> FetchUrls] : n \in 0..MaxFetches}
    /\ mresults = <<>>
    /\ mlog = <<>>

\* fetch_many is not called.
ManyIdle ==
    /\ murls = <<>>
    /\ mresults = <<>>
    /\ mlog = <<>>

\* There is no scraper.
FetchIdle ==
    /\ ManyIdle
    /\ use_cache = FALSE
    /\ follow_redirects = TRUE
    /\ cache = {}
    /\ fpc = "off"
    /\ furl = start_url
    /\ fresult = NoResult
    /\ ftrace = <<>>
    /\ nfetch = 0

\* The clock of a specification that does not use the bucket.
ClockStart == BucketIdle

(***************************************************************************)
(* AdaptiveRateLimiter                                                     *)
(***************************************************************************)

\* A rate is a fraction n/d of requests per second, in lowest terms.
RECURSIVE Gcd(_, _)
Gcd(a, b) == IF b = 0 THEN a ELSE Gcd(b, a % b)

Frac(n, d) == [n |-> n \div Gcd(n, d), d |-> d \div Gcd(n, d)]

FracLeq(a, b) == a.n * b.d <= b.n * a.d
FracLess(a, b) == a.n * b.d < b.n * a.d
FracMin(a, b) == IF FracLeq(a, b) THEN a ELSE b
FracMax(a, b) == IF FracLeq(b, a) THEN a ELSE b
FracTimes(a, b) == Frac(a.n * b.n, a.d * b.d)
FracPlus(a, b) == Frac(a.n * b.d + b.n * a.d, a.d * b.d)
FracMinus(a, b) == Frac(a.n * b.d - b.n * a.d, a.d * b.d)
FracDiv(a, b) == Frac(a.n * b.d, a.d * b.n)

\* int(x)
FracInt(a) == a.n \div a.d

\* TokenBucket(r, int(r * 2)): a full bucket, last updated now; its tokens
\* are kept as a fraction, as _add_tokens makes them one
NewBucket(r) ==
    [rate |-> r,
     capacity |-> FracInt(FracTimes(r, Frac(2, 1))),
     tokens |-> Frac(FracInt(FracTimes(r, Frac(2, 1))), 1),
     last_update |-> now]

\* max(self.min_rps, self.current_rps * 0.5)
Slower_Unfloored(r) == FracTimes(r, Frac(1, 2))
Slower(r) == FracMax(min_rps, FracTimes(r, Frac(1, 2)))

\* min(self.max_rps, self.current_rps * 1.1)
Faster_Uncapped(r) == FracTimes(r, Frac(11, 10))
Faster(r) == FracMin(max_rps, FracTimes(r, Frac(11, 10)))

\* no report_response has been made
NoStatus == 0

IsSuccess_AnyOther(status_code) == TRUE

\* `elif status_code < 400`
IsSuccess(status_code) == status_code < 400

\* report_response(status_code)
ReportResponse(status_code) ==
    /\ nreports < MaxReports
    /\ nreports' = nreports + 1
    /\ last_status' = status_code
    /\ prev_rps' = current_rps
    /\ IF status_code = 429
         THEN /\ current_rps' = Slower(current_rps)
              /\ abucket' = NewBucket(Slower(current_rps))
         ELSE IF IsSuccess(status_code)
           THEN /\ current_rps' = Faster(current_rps)
                /\ abucket' = NewBucket(Faster(current_rps))
           ELSE UNCHANGED <<current_rps, abucket>>
    /\ UNCHANGED <<min_rps, max_rps>>

\* the statuses that make report_response change the rate
Adjusts(status_code) == status_code = 429 \/ IsSuccess(status_code)

\* the right-hand side of the assignment to self.current_rps
NewRps(status_code, r) == IF status_code = 429 THEN Slower(r) ELSE Faster(r)

\* Worker w calls report_response(status_code); for a status that adjusts
\* the rate it reads self.current_rps and computes the new value. The
\* workers run the same code, so of the workers that are outside
\* report_response the one with the lowest number makes the call.
ReportBegin(w, status_code) ==
    /\ kpc[w] = "idle"
    /\ \A u \in Threads : u < w => kpc[u] # "idle"
    /\ nreports < MaxReports
    /\ nreports' = nreports + 1
    /\ reports' = Append(reports, status_code)
    /\ IF Adjusts(status_code)
         THEN /\ knew' = [knew EXCEPT ![w] = NewRps(status_code, current_rps)]
              /\ kpc' = [kpc EXCEPT ![w] = "store"]
         ELSE UNCHANGED <<knew, kpc>>
    /\ UNCHANGED <<current_rps, min_rps, max_rps, abucket, last_status,
                   prev_rps, initial_rps, kbucket>>

\* Worker w stores the value it computed: `self.current_rps = ...`
ReportStore(w) ==
    /\ kpc[w] = "store"
    /\ current_rps' = knew[w]
    /\ kpc' = [kpc EXCEPT ![w] = "build"]
    /\ UNCHANGED <<min_rps, max_rps, abucket, nreports, last_status,
                   prev_rps, initial_rps, knew, kbucket, reports>>

\* Worker w reads self.current_rps again and builds
\* TokenBucket(self.current_rps, int(self.current_rps * 2))
ReportBuild(w) ==
    /\ kpc[w] = "build"
    /\ kbucket' = [kbucket EXCEPT ![w] = NewBucket(current_rps)]
    /\ kpc' = [kpc EXCEPT ![w] = "install"]
    /\ UNCHANGED <<current_rps, min_rps, max_rps, abucket, nreports,
                   last_status, prev_rps, initial_rps, knew, reports>>

\* Worker w installs the bucket it built: `self.bucket = ...`, and returns
ReportInstall(w) ==
    /\ kpc[w] = "install"
    /\ abucket' = kbucket[w]
    /\ kpc' = [kpc EXCEPT ![w] = "idle"]
    /\ knew' = [knew EXCEPT ![w] = Frac(0, 1)]
    /\ kbucket' = [kbucket EXCEPT ![w] = NewBucket(Frac(0, 1))]
    /\ UNCHANGED <<current_rps, min_rps, max_rps, nreports, last_status,
                   prev_rps, initial_rps, reports>>

\* No worker is inside report_response.
WorkersIdle ==
    /\ initial_rps = current_rps
    /\ kpc = [w \in Threads |-> "idle"]
    /\ knew = [w \in Threads |-> Frac(0, 1)]
    /\ kbucket = [w \in Threads |-> NewBucket(Frac(0, 1))]
    /\ reports = <<>>

\* _add_tokens on the bucket b
BucketRefilled(b) ==
    [b EXCEPT !.tokens =
                  FracMin(Frac(b.capacity, 1),
                          FracPlus(b.tokens,
                                   FracTimes(Frac(now - b.last_update, 1), b.rate))),
              !.last_update = now]

\* `self.tokens -= tokens` of acquire(), whose tokens is 1
BucketDeducted(b) == [b EXCEPT !.tokens = FracMinus(b.tokens, Frac(1, 1))]

\* no time.sleep is under way
NoSleep == [since |-> 0, wait |-> Frac(0, 1), stale |-> FALSE]

\* AdaptiveRateLimiter.acquire: `return self.bucket.acquire()`, the first
\* locked section of TokenBucket.acquire(tokens=1, blocking=True)
AdaptAcquire ==
    /\ lpc = "idle"
    /\ Len(ladmitted) < MaxAdmits
    /\ LET b == BucketRefilled(abucket) IN
       IF FracLeq(Frac(1, 1), b.tokens)
         THEN \* return True
              /\ abucket' = BucketDeducted(b)
              /\ ladmitted' = Append(ladmitted, now)
              /\ UNCHANGED <<lpc, lsleep>>
         ELSE \* deficit = tokens - self.tokens, wait_time = deficit / self.rate;
              \* the lock is left and time.sleep(wait_time) begins
              /\ abucket' = b
              /\ lpc' = "sleep"
              /\ lsleep' = [since |-> now,
                            wait |-> FracDiv(FracMinus(Frac(1, 1), b.tokens), b.rate),
                            stale |-> FALSE]
              /\ UNCHANGED ladmitted
    /\ UNCHANGED <<current_rps, min_rps, max_rps, nreports, last_status,
                   prev_rps, workerVars>>

\* time.sleep(wait_time) has returned: the second locked section, on the
\* bucket the call began with, which is no longer self.bucket if a
\* report_response replaced it meanwhile
AdaptWake ==
    /\ lpc = "sleep"
    /\ FracLeq(lsleep.wait, Frac(now - lsleep.since, 1))
    /\ abucket' = IF lsleep.stale THEN abucket
                  ELSE BucketDeducted(BucketRefilled(abucket))
    /\ ladmitted' = Append(ladmitted, now)
    /\ lpc' = "idle"
    /\ lsleep' = NoSleep
    /\ UNCHANGED <<current_rps, min_rps, max_rps, nreports, last_status,
                   prev_rps, workerVars>>

\* report_response(status_code) on a limiter whose acquire is in use
AdaptReport(status_code) ==
    /\ ReportResponse(status_code)
    /\ lsleep' = IF lpc = "sleep" /\ Adjusts(status_code)
                   THEN [lsleep EXCEPT !.stale = TRUE] ELSE lsleep
    /\ UNCHANGED <<lpc, ladmitted, workerVars>>

\* No acquire of the limiter has been made.
LoopIdle ==
    /\ lpc = "idle"
    /\ lsleep = NoSleep
    /\ ladmitted = <<>>

\* AdaptiveRateLimiter(initial_rps, min_rps, max_rps), with
\* min_rps <= initial_rps <= max_rps
AdaptStart ==
    /\ min_rps \in {Frac(1, 10), Frac(1, 1)}
    /\ max_rps \in {Frac(5, 2), Frac(10, 1)}
    /\ current_rps \in {Frac(1, 1), Frac(2, 1), Frac(5, 2)}
    /\ WorkersIdle
    /\ LoopIdle
    /\ abucket = NewBucket(current_rps)
    /\ nreports = 0
    /\ last_status = NoStatus
    /\ prev_rps = current_rps

\* AdaptiveRateLimiter() with its defaults, not used
AdaptIdle ==
    /\ min_rps = Frac(1, 10)
    /\ max_rps = Frac(10, 1)
    /\ current_rps = Frac(2, 1)
    /\ WorkersIdle
    /\ LoopIdle
    /\ abucket = NewBucket(Frac(2, 1))
    /\ nreports = 0
    /\ last_status = NoStatus
    /\ prev_rps = Frac(2, 1)

(***************************************************************************)
(* AsyncScraper                                                            *)
(***************************************************************************)

\* The URLs fetch_many is called with: a well-formed one, and one whose
\* scheme the validator does not allow.
AsyncUrls == {Url("a.example", "/"), FtpUrl}
UrlLists == UNION {[1..n -> AsyncUrls] : n \in 0..MaxUrls}

\* The coroutines gather runs: one fetch per URL of the list.
Tasks == 1..Len(aurls)

\* The response session.get gives to task i, and the None a fetch returns
\* when it falls off its end.
Resp(i, status) == [of |-> i, status |-> status]
NoneResp == [of |-> 0, status |-> 0]

AReturned(r) == [kind |-> "return", val |-> r, exc |-> NoExc]
ARaised(e) == [kind |-> "raise", val |-> NoneResp, exc |-> e]
ANoResult == [kind |-> "none", val |-> NoneResp, exc |-> NoExc]

\* the statuses response.raise_for_status() lets pass, and what
\* session.get or raise_for_status raise
OkStatuses == {200}
AsyncErrors == {HTTPError, Exc("Transport", 0)}

\* `async with self.semaphore`: the semaphore lets a task in
SemFree_Always(v) == TRUE
SemFree(v) == v > 0

\* `for attempt in range(self.config.max_retries)`: there is an iteration
\* for this value of attempt
InRange(att) == att < amax_retries

\* `if attempt == self.config.max_retries - 1: raise`
IsLastAttempt(att) == att = amax_retries - 1

\* self.validator.validate(url), the first statement of fetch
TaskValidate(i) ==
    /\ apc = "gather"
    /\ tpcs[i] = "validate"
    /\ IF validate(aurls[i])
         THEN /\ tpcs' = [tpcs EXCEPT ![i] = "wait"]
              /\ UNCHANGED aresult
         ELSE /\ tpcs' = [tpcs EXCEPT ![i] = "raised"]
              /\ aresult' = [aresult EXCEPT ![i] = ARaised(ValueError)]
    /\ UNCHANGED <<amax_concurrent, amax_retries, aurls, sem, aattempt, areqs,
                   apc, aresults>>

\* `async with self.semaphore`: the task is let in
TaskEnter(i) ==
    /\ apc = "gather"
    /\ tpcs[i] = "wait"
    /\ SemFree(sem)
    /\ sem' = sem - 1
    /\ tpcs' = [tpcs EXCEPT ![i] = "delay"]
    /\ UNCHANGED <<amax_concurrent, amax_retries, aurls, aattempt, aresult,
                   areqs, apc, aresults>>

\* await self._apply_delay() is over and the loop is entered; with no
\* iteration to run the fetch leaves the semaphore and returns None
TaskDelay(i) ==
    /\ apc = "gather"
    /\ tpcs[i] = "delay"
    /\ IF InRange(0)
         THEN /\ tpcs' = [tpcs EXCEPT ![i] = "request"]
              /\ UNCHANGED <<sem, aresult>>
         ELSE /\ tpcs' = [tpcs EXCEPT ![i] = "returned"]
              /\ aresult' = [aresult EXCEPT ![i] = AReturned(NoneResp)]
              /\ sem' = sem + 1
    /\ UNCHANGED <<amax_concurrent, amax_retries, aurls, aattempt, areqs,
                   apc, aresults>>

\* session.get gives a response that raise_for_status lets pass: it is read
\* and returned, and the semaphore is left
TaskRequestOk(i, status) ==
    /\ apc = "gather"
    /\ tpcs[i] = "request"
    /\ areqs' = [areqs EXCEPT ![i] = @ + 1]
    /\ aresult' = [aresult EXCEPT ![i] = AReturned(Resp(i, status))]
    /\ tpcs' = [tpcs EXCEPT ![i] = "returned"]
    /\ sem' = sem + 1
    /\ UNCHANGED <<amax_concurrent, amax_retries, aurls, aattempt, apc,
                   aresults>>

\* session.get or raise_for_status raises: `except Exception` re-raises on
\* the last attempt, and goes to sleep otherwise
TaskRequestFails(i, e) ==
    /\ apc = "gather"
    /\ tpcs[i] = "request"
    /\ areqs' = [areqs EXCEPT ![i] = @ + 1]
    /\ IF IsLastAttempt(aattempt[i])
         THEN /\ aresult' = [aresult EXCEPT ![i] = ARaised(e)]
              /\ tpcs' = [tpcs EXCEPT ![i] = "raised"]
              /\ sem' = sem + 1
         ELSE /\ tpcs' = [tpcs EXCEPT ![i] = "backoff"]
              /\ UNCHANGED <<sem, aresult>>
    /\ UNCHANGED <<amax_concurrent, amax_retries, aurls, aattempt, apc,
                   aresults>>

\* await asyncio.sleep(2 ** attempt) is over: the next iteration
TaskBackoff(i) ==
    /\ apc = "gather"
    /\ tpcs[i] = "backoff"
    /\ aattempt' = [aattempt EXCEPT ![i] = @ + 1]
    /\ tpcs' = [tpcs EXCEPT ![i] = "request"]
    /\ UNCHANGED <<amax_concurrent, amax_retries, aurls, sem, aresult, areqs,
                   apc, aresults>>

\* `isinstance(result, Exception)` of the result gather gives for a task
IsException(res) == res.kind = "raise"

\* the loop over zip(urls, results): the results that are no exceptions, in
\* the order of the list
RECURSIVE ValidResults(_, _)
ValidResults(res, i) ==
    IF i > Len(res) THEN <<>>
    ELSE IF IsException(res[i]) THEN ValidResults(res, i + 1)
    ELSE <<res[i].val>> \o ValidResults(res, i + 1)

\* asyncio.gather(*tasks, return_exceptions=True) is over when every task
\* is; fetch_many filters its results and returns
GatherReturn ==
    /\ apc = "gather"
    /\ \A i \in Tasks : tpcs[i] \in {"returned", "raised"}
    /\ aresults' = ValidResults(aresult, 1)
    /\ apc' = "done"
    /\ UNCHANGED <<amax_concurrent, amax_retries, aurls, sem, tpcs, aattempt,
                   aresult, areqs>>

\* AsyncScraper(config), then fetch_many(urls): gather has made one task per
\* URL
AsyncStart ==
    /\ amax_concurrent \in 1..MaxConcurrentBound
    /\ amax_retries \in 0..MaxRetriesBound
    /\ aurls \in UrlLists
    /\ sem = amax_concurrent
    /\ tpcs = [i \in Tasks |-> "validate"]
    /\ aattempt = [i \in Tasks |-> 0]
    /\ aresult = [i \in Tasks |-> ANoResult]
    /\ areqs = [i \in Tasks |-> 0]
    /\ apc = "gather"
    /\ aresults = <<>>

\* There is no AsyncScraper.
AsyncIdle ==
    /\ amax_concurrent = 10
    /\ amax_retries = 3
    /\ aurls = <<>>
    /\ sem = 10
    /\ tpcs = <<>>
    /\ aattempt = <<>>
    /\ aresult = <<>>
    /\ areqs = <<>>
    /\ apc = "off"
    /\ aresults = <<>>

(***************************************************************************)
(* Specifications                                                          *)
(***************************************************************************)

InitRetry ==
    RetryConfig /\ ExecStart /\ CrawlIdle /\ BucketIdle /\ FetchIdle
    /\ CacheDefault /\ AdaptIdle /\ AsyncIdle

\* execute called on its own (by the wrapper of the retry decorator): func is
\* any operation
NextRetry ==
    \/ \E v \in Values :
          /\ fpc = "off"
          /\ ExecReturn(v)
          /\ UNCHANGED <<crawlVars, bucketVars, fetchVars, cacheVars, adaptVars, asyncVars>>
    \/ \E cls \in ErrorClasses, r \in 0..RandSteps :
          /\ fpc = "off"
          /\ ExecRaise(cls, r)
          /\ UNCHANGED <<crawlVars, bucketVars, fetchVars, cacheVars, adaptVars, asyncVars>>
    \/ /\ fpc = "off"
       /\ ExecSleep
       /\ UNCHANGED <<crawlVars, bucketVars, fetchVars, cacheVars, adaptVars, asyncVars>>

SpecRetry == InitRetry /\ [][NextRetry]_vars

InitCrawl ==
    CrawlArgs /\ CrawlStart /\ RetryIdle /\ BucketIdle /\ FetchIdle
    /\ CacheDefault /\ AdaptIdle /\ AsyncIdle

NextCrawl ==
    \/ CrawlSkip /\ UNCHANGED <<retryVars, bucketVars, fetchVars, cacheVars, adaptVars, asyncVars, twiceVars>>
    \/ \E ls \in LinkLists :
          CrawlFetchOk(ls) /\ UNCHANGED <<retryVars, bucketVars, fetchVars, cacheVars, adaptVars, asyncVars, twiceVars>>
    \/ CrawlFetchFail /\ UNCHANGED <<retryVars, bucketVars, fetchVars, cacheVars, adaptVars, asyncVars, twiceVars>>
    \/ CrawlReturn /\ UNCHANGED <<retryVars, bucketVars, fetchVars, cacheVars, adaptVars, asyncVars, twiceVars>>

SpecCrawl == InitCrawl /\ [][NextCrawl]_vars

\* crawl is one sequential loop: an iteration that can be made is made,
\* since scrape returns or raises (its requests have a timeout)
SpecCrawlFair == SpecCrawl /\ WF_vars(NextCrawl)

\* the URLs whose scrape raised in this crawl and never returned
FailedUrls ==
    {fetchLog[i].url : i \in {j \in 1..Len(fetchLog) : ~fetchLog[j].ok}}
    \ visited

\* the site does not change: a page that was seen holds the same links
\* when it is fetched again
SamePage(url, ls) == url \in DOMAIN web => web[url] = ls

\* CrawlFetchOk, with the soup it appends to results
TwiceFetchOk(ls) ==
    /\ CrawlFetchOk(ls)
    /\ SamePage(Head(to_visit), ls)
    /\ soups' = Append(soups, ls)
    /\ web' = [u \in DOMAIN web \cup {Head(to_visit)} |->
                 IF u = Head(to_visit) THEN ls ELSE web[u]]
    /\ UNCHANGED first

\* crawl has returned, and the caller calls it again with the same
\* arguments
CrawlAgain ==
    /\ cpc = "done"
    /\ ~first.done
    /\ first' = [done |-> TRUE, soups |-> soups, failed |-> FailedUrls]
    /\ visited' = {}
    /\ to_visit' = <<start_url>>
    /\ results' = <<>>
    /\ cpc' = "loop"
    /\ fetchLog' = <<>>
    /\ firstEnq' = <<start_url>>
    /\ discovered' = {}
    /\ soups' = <<>>
    /\ UNCHANGED <<max_pages, same_domain, link_filter, web>>

\* two crawls of one site with the same arguments
NextCrawlTwice ==
    \/ CrawlSkip /\ UNCHANGED <<retryVars, bucketVars, fetchVars, cacheVars, adaptVars, asyncVars, twiceVars>>
    \/ \E ls \in LinkLists :
          TwiceFetchOk(ls) /\ UNCHANGED <<retryVars, bucketVars, fetchVars, cacheVars, adaptVars, asyncVars>>
    \/ CrawlFetchFail /\ UNCHANGED <<retryVars, bucketVars, fetchVars, cacheVars, adaptVars, asyncVars, twiceVars>>
    \/ CrawlReturn /\ UNCHANGED <<retryVars, bucketVars, fetchVars, cacheVars, adaptVars, asyncVars, twiceVars>>
    \/ CrawlAgain /\ UNCHANGED <<retryVars, bucketVars, fetchVars, cacheVars, adaptVars, asyncVars>>

SpecCrawlTwice == InitCrawl /\ [][NextCrawlTwice]_vars

InitBucket ==
    BucketStart /\ RetryIdle /\ CrawlIdle /\ FetchIdle /\ CacheDefault
    /\ AdaptIdle /\ AsyncIdle

NextBucket ==
    \/ \E t \in Threads, cost \in 1..MaxCost, blocking \in BOOLEAN :
          AcquireEnter(t, cost, blocking)
          /\ UNCHANGED <<retryVars, crawlVars, fetchVars, cacheVars, adaptVars, asyncVars, windowVars>>
    \/ \E t \in Threads :
          AcquireWake(t) /\ UNCHANGED <<retryVars, crawlVars, fetchVars, cacheVars, adaptVars, asyncVars, windowVars>>
    \/ Tick /\ UNCHANGED <<retryVars, crawlVars, fetchVars, cacheVars, adaptVars, asyncVars, windowVars>>

SpecBucket == InitBucket /\ [][NextBucket]_vars

InitWindow ==
    WindowStart /\ BucketUnused /\ RetryIdle /\ CrawlIdle /\ FetchIdle
    /\ CacheDefault /\ AdaptIdle /\ AsyncIdle

\* the bucket is not in use: of its variables only the clock moves
NextWindow ==
    \/ \E t \in Threads, blocking \in BOOLEAN :
          WindowEnter(t, blocking)
          /\ UNCHANGED <<rate, capacity, tokens, last_update, now, tpc, tcost,
                         twait, tsince, granted, denied, acalls, acq>>
          /\ UNCHANGED <<retryVars, crawlVars, fetchVars, cacheVars, adaptVars, asyncVars>>
    \/ \E t \in Threads :
          WindowRetry(t)
          /\ UNCHANGED <<rate, capacity, tokens, last_update, now, tpc, tcost,
                         twait, tsince, granted, denied, acalls, acq>>
          /\ UNCHANGED <<retryVars, crawlVars, fetchVars, cacheVars, adaptVars, asyncVars>>
    \/ Tick /\ UNCHANGED <<retryVars, crawlVars, fetchVars, cacheVars, adaptVars, asyncVars, windowVars>>

SpecWindow == InitWindow /\ [][NextWindow]_vars

\* the two limiters that sleep inside a blocking acquire; a run calls one
\* of them
InitLimiters == InitBucket \/ InitWindow

NextLimiters ==
    \/ wcalls = 0 /\ NextBucket
    \/ acalls = 0 /\ NextWindow

SpecLimiters == InitLimiters /\ [][NextLimiters]_vars

InitFetch ==
    FetchStart /\ ManyIdle /\ CrawlIdle /\ ClockStart /\ CacheDefault
    /\ AdaptIdle /\ AsyncIdle

NextFetch ==
    \/ \E url \in FetchUrls :
          FetchCall(url) /\ UNCHANGED <<crawlVars, bucketVars, adaptVars, asyncVars, manyVars>>
    \/ FetchValidate /\ UNCHANGED <<retryVars, crawlVars, bucketVars, adaptVars, asyncVars, manyVars>>
    \/ FetchHas /\ UNCHANGED <<retryVars, crawlVars, bucketVars, adaptVars, asyncVars, manyVars>>
    \/ FetchGet /\ UNCHANGED <<retryVars, crawlVars, bucketVars, adaptVars, asyncVars, manyVars>>
    \/ FetchDelay /\ UNCHANGED <<crawlVars, bucketVars, adaptVars, asyncVars, manyVars>>
    \/ \E status \in Values :
          FetchRequestReturns(status) /\ UNCHANGED <<crawlVars, bucketVars, adaptVars, asyncVars, manyVars>>
    \/ \E cls \in ErrorClasses, r \in 0..RandSteps :
          FetchRequestRaises(cls, r) /\ UNCHANGED <<crawlVars, bucketVars, adaptVars, asyncVars, manyVars>>
    \/ FetchBackoff /\ UNCHANGED <<crawlVars, bucketVars, adaptVars, asyncVars, manyVars>>
    \/ FetchExecuteRaised /\ UNCHANGED <<retryVars, crawlVars, bucketVars, adaptVars, asyncVars, manyVars>>
    \/ FetchExecuteReturned /\ UNCHANGED <<retryVars, crawlVars, bucketVars, adaptVars, asyncVars, manyVars>>
    \/ fpc # "off" /\ Tick /\ UNCHANGED <<retryVars, crawlVars, fetchVars, cacheVars, adaptVars, asyncVars, windowVars>>

SpecFetch == InitFetch /\ [][NextFetch]_vars

\* fetch with a cache whose methods may raise
NextFetchFaulty ==
    \/ NextFetch
    \/ FetchHasRaises /\ UNCHANGED <<retryVars, crawlVars, bucketVars, adaptVars, asyncVars, manyVars>>
    \/ FetchGetRaises /\ UNCHANGED <<retryVars, crawlVars, bucketVars, adaptVars, asyncVars, manyVars>>
    \/ FetchSetRaises /\ UNCHANGED <<retryVars, crawlVars, bucketVars, adaptVars, asyncVars, manyVars>>

SpecFetchFaulty == InitFetch /\ [][NextFetchFaulty]_vars

InitFetchMany ==
    FetchStart /\ ManyArgs /\ CrawlIdle /\ ClockStart /\ CacheDefault
    /\ AdaptIdle /\ AsyncIdle

\* fetch_many: its loop, and the steps of the fetch it has called
NextFetchMany ==
    \/ ManyFetch /\ UNCHANGED <<crawlVars, bucketVars, adaptVars, asyncVars>>
    \/ ManyAppend /\ UNCHANGED <<retryVars, crawlVars, bucketVars, adaptVars, asyncVars>>
    \/ FetchValidate /\ UNCHANGED <<retryVars, crawlVars, bucketVars, adaptVars, asyncVars, manyVars>>
    \/ FetchHas /\ UNCHANGED <<retryVars, crawlVars, bucketVars, adaptVars, asyncVars, manyVars>>
    \/ FetchGet /\ UNCHANGED <<retryVars, crawlVars, bucketVars, adaptVars, asyncVars, manyVars>>
    \/ FetchDelay /\ UNCHANGED <<crawlVars, bucketVars, adaptVars, asyncVars, manyVars>>
    \/ \E status \in Values :
          FetchRequestReturns(status) /\ UNCHANGED <<crawlVars, bucketVars, adaptVars, asyncVars, manyVars>>
    \/ \E cls \in ErrorClasses, r \in 0..RandSteps :
          FetchRequestRaises(cls, r) /\ UNCHANGED <<crawlVars, bucketVars, adaptVars, asyncVars, manyVars>>
    \/ FetchBackoff /\ UNCHANGED <<crawlVars, bucketVars, adaptVars, asyncVars, manyVars>>
    \/ FetchExecuteRaised /\ UNCHANGED <<retryVars, crawlVars, bucketVars, adaptVars, asyncVars, manyVars>>
    \/ FetchExecuteReturned /\ UNCHANGED <<retryVars, crawlVars, bucketVars, adaptVars, asyncVars, manyVars>>
    \/ Tick /\ UNCHANGED <<retryVars, crawlVars, fetchVars, cacheVars, adaptVars, asyncVars, windowVars>>

SpecFetchMany == InitFetchMany /\ [][NextFetchMany]_vars

InitCache ==
    CacheStart /\ FetchIdle /\ RetryIdle /\ CrawlIdle /\ ClockStart
    /\ AdaptIdle /\ AsyncIdle

\* the methods of a CacheManager called directly, and the passing of time
NextCache ==
    \/ \E key \in CacheKeys, value \in CacheVals, ttl \in TtlArgs :
          CacheOpSet(key, value, ttl)
          /\ UNCHANGED <<retryVars, crawlVars, bucketVars, adaptVars, asyncVars, manyVars>>
    \/ \E key \in CacheKeys :
          CacheOpGet(key) /\ UNCHANGED <<retryVars, crawlVars, bucketVars, adaptVars, asyncVars, manyVars>>
    \/ \E key \in CacheKeys :
          CacheOpHas(key) /\ UNCHANGED <<retryVars, crawlVars, bucketVars, adaptVars, asyncVars, manyVars>>
    \/ \E key \in CacheKeys :
          CacheOpDelete(key) /\ UNCHANGED <<retryVars, crawlVars, bucketVars, adaptVars, asyncVars, manyVars>>
    \/ CacheOpClear /\ UNCHANGED <<retryVars, crawlVars, bucketVars, adaptVars, asyncVars, manyVars>>
    \/ Tick /\ UNCHANGED <<retryVars, crawlVars, fetchVars, cacheVars, adaptVars, asyncVars, windowVars>>

SpecCache == InitCache /\ [][NextCache]_vars

InitAdapt ==
    ClockStart /\ AdaptStart /\ RetryIdle /\ CrawlIdle /\ FetchIdle
    /\ CacheDefault /\ AsyncIdle

\* the statuses a caller reports
NextAdapt ==
    \E status_code \in Values :
        ReportResponse(status_code)
        /\ UNCHANGED <<retryVars, crawlVars, bucketVars, fetchVars, cacheVars,
                       asyncVars, workerVars, loopVars>>

SpecAdapt == InitAdapt /\ [][NextAdapt]_vars

\* AdaptiveRateLimiter(initial_rps, min_rps, max_rps) of a caller that
\* acquires before its requests and reports their statuses
ThrottleStart ==
    /\ min_rps = Frac(1, 10)
    /\ max_rps \in {Frac(1, 1), Frac(5, 2)}
    /\ current_rps \in {Frac(1, 1), Frac(2, 1)}
    /\ FracLeq(current_rps, max_rps)
    /\ WorkersIdle
    /\ LoopIdle
    /\ abucket = NewBucket(current_rps)
    /\ nreports = 0
    /\ last_status = NoStatus
    /\ prev_rps = current_rps

InitThrottle ==
    ClockStart /\ ThrottleStart /\ RetryIdle /\ CrawlIdle /\ FetchIdle
    /\ CacheDefault /\ AsyncIdle

\* acquire and report_response in any interleaving, as the clock runs
NextThrottle ==
    \/ AdaptAcquire
       /\ UNCHANGED <<retryVars, crawlVars, bucketVars, fetchVars, cacheVars,
                      asyncVars>>
    \/ AdaptWake
       /\ UNCHANGED <<retryVars, crawlVars, bucketVars, fetchVars, cacheVars,
                      asyncVars>>
    \/ \E status_code \in {200, 404, 429, 500} :
          AdaptReport(status_code)
          /\ UNCHANGED <<retryVars, crawlVars, bucketVars, fetchVars, cacheVars,
                         asyncVars>>
    \/ Tick
       /\ UNCHANGED <<retryVars, crawlVars, windowVars, fetchVars, cacheVars,
                      adaptVars, asyncVars>>

SpecThrottle == InitThrottle /\ [][NextThrottle]_vars

\* several workers call report_response on one limiter
NextWorkers ==
    \/ \E w \in Threads, status_code \in Values :
          ReportBegin(w, status_code)
          /\ UNCHANGED <<retryVars, crawlVars, bucketVars, fetchVars, cacheVars,
                         asyncVars, loopVars>>
    \/ \E w \in Threads :
          ReportStore(w)
          /\ UNCHANGED <<retryVars, crawlVars, bucketVars, fetchVars, cacheVars,
                         asyncVars, loopVars>>
    \/ \E w \in Threads :
          ReportBuild(w)
          /\ UNCHANGED <<retryVars, crawlVars, bucketVars, fetchVars, cacheVars,
                         asyncVars, loopVars>>
    \/ \E w \in Threads :
          ReportInstall(w)
          /\ UNCHANGED <<retryVars, crawlVars, bucketVars, fetchVars, cacheVars,
                         asyncVars, loopVars>>

SpecWorkers == InitAdapt /\ [][NextWorkers]_vars

InitAsync ==
    AsyncStart /\ RetryIdle /\ CrawlIdle /\ ClockStart /\ FetchIdle
    /\ CacheDefault /\ AdaptIdle

\* the tasks of gather, in any interleaving
NextAsync ==
    \/ \E i \in Tasks :
          TaskValidate(i)
          /\ UNCHANGED <<retryVars, crawlVars, bucketVars, fetchVars, cacheVars,
                       adaptVars>>
    \/ \E i \in Tasks :
          TaskEnter(i)
          /\ UNCHANGED <<retryVars, crawlVars, bucketVars, fetchVars, cacheVars,
                       adaptVars>>
    \/ \E i \in Tasks :
          TaskDelay(i)
          /\ UNCHANGED <<retryVars, crawlVars, bucketVars, fetchVars, cacheVars,
                       adaptVars>>
    \/ \E i \in Tasks, status \in OkStatuses :
          TaskRequestOk(i, status)
          /\ UNCHANGED <<retryVars, crawlVars, bucketVars, fetchVars, cacheVars,
                       adaptVars>>
    \/ \E i \in Tasks, e \in AsyncErrors :
          TaskRequestFails(i, e)
          /\ UNCHANGED <<retryVars, crawlVars, bucketVars, fetchVars, cacheVars,
                       adaptVars>>
    \/ \E i \in Tasks :
          TaskBackoff(i)
          /\ UNCHANGED <<retryVars, crawlVars, bucketVars, fetchVars, cacheVars,
                       adaptVars>>
    \/ /\ GatherReturn
       /\ UNCHANGED <<retryVars, crawlVars, bucketVars, fetchVars, cacheVars,
                       adaptVars>>

SpecAsync == InitAsync /\ [][NextAsync]_vars

\* fetch of both scrapers: the sequential one and the concurrent one
InitFetchers == InitFetch \/ InitAsync

NextFetchers == NextFetch \/ NextAsync

SpecFetchers == InitFetchers /\ [][NextFetchers]_vars

\* execute under both of its callers: on its own, and inside fetch
InitExecute == InitRetry \/ InitFetch

NextExecute == NextRetry \/ NextFetch

SpecExecute == InitExecute /\ [][NextExecute]_vars

(***************************************************************************)
(* Claims about TokenBucket                                                *)
(***************************************************************************)

\* C1: after every acquire call (blocking or non-blocking, any cost) and
\* every advance of the clock, in any order and from any number of callers,
\* 0 <= tokens <= capacity.
C1_TokensInRange == 0 <= tokens /\ tokens <= capacity

(***************************************************************************)
(* Claims about RetryManager                                               *)
(***************************************************************************)

\* Call i of func failed with an error of the configured retryable set.
RetryableFailure(i) ==
    /\ calls[i].kind = "raise"
    /\ calls[i].exc.cls \in retry_exceptions

AllRetryableFailures == \A i \in 1..Len(calls) : RetryableFailure(i)

ExecEnded == rpc \in {"returned", "raised"}

\* C7: execute calls the operation at most max_retries + 1 times in one
\* call, and exactly max_retries + 1 times when every attempt fails with a
\* retryable error.
C7_AttemptBound ==
    /\ Len(calls) <= max_retries + 1
    /\ (ExecEnded /\ AllRetryableFailures) => Len(calls) = max_retries + 1

C7_Witness ==
    /\ rpc = "raised"
    /\ AllRetryableFailures
    /\ max_retries = 2
    /\ Len(calls) = 3

\* C9: an attempt that fails with an error outside the retryable set ends
\* execute at once with that error: it is the last call, the calls before it
\* are the retryable failures, each followed by one sleep, and no sleep
\* follows it.
C9_NonRetryablePropagates ==
    \A i \in 1..Len(calls) :
        (calls[i].kind = "raise" /\ calls[i].exc.cls \notin retry_exceptions)
        => /\ i = Len(calls)
           /\ rpc = "raised"
           /\ rresult = Raised(calls[i].exc)
           /\ \A j \in 1..(i - 1) : RetryableFailure(j)
           /\ Len(sleeps) = i - 1

C9_Witness ==
    /\ rpc = "raised"
    /\ Len(calls) = 2
    /\ RetryableFailure(1)
    /\ calls[2].kind = "raise"
    /\ calls[2].exc.cls \notin retry_exceptions
    /\ max_retries = 2

\* The bounds of C10, in 1/DelayScale s, for the delay computed after the
\* failed attempt att: 0.75 * d and 1.25 * d with
\* d = min(base_delay * exponential_base^att, max_delay).
DelayInBounds(att, dl) ==
    LET d == Min(base_delay * Pow(exponential_base, att), max_delay) IN
    /\ 3 * d * RandSteps <= dl
    /\ dl <= 5 * d * RandSteps
    /\ dl >= 0

\* C10: calculate_delay(attempt) lies in [0.75 * d, 1.25 * d] for every value
\* of the random source, and is never negative.
C10_DelayBounds ==
    /\ \A att \in 0..MaxAttempt, r \in 0..RandSteps :
          DelayInBounds(att, calculate_delay(att, r))
    /\ rpc = "sleep" => DelayInBounds(attempt, delay)
    /\ \A i \in 1..Len(sleeps) : DelayInBounds(sleeps[i][1], sleeps[i][2])

\* a sleep whose delay is capped by max_delay and takes the largest jitter
C10_Witness ==
    /\ rpc = "sleep"
    /\ attempt = 1
    /\ base_delay * Pow(exponential_base, attempt) > max_delay
    /\ delay = 5 * max_delay * RandSteps

\* C8: when every attempt of execute fails with a retryable error, execute
\* fails with the error of the last attempt, and fetch surfaces that failure
\* to its caller.
C8_LastFailurePropagates ==
    /\ (ExecEnded /\ AllRetryableFailures) =>
          /\ calls # <<>>
          /\ rresult = Raised(calls[Len(calls)].exc)
    /\ (fpc \in {"returned", "raised"} /\ ExecEnded /\ AllRetryableFailures) =>
          fresult = Raised(calls[Len(calls)].exc)

\* a fetch all of whose three attempts failed has raised the third error
C8_Witness ==
    /\ fpc = "raised"
    /\ rpc = "raised"
    /\ AllRetryableFailures
    /\ Len(calls) = 3
    /\ fresult.exc.id = 3

(***************************************************************************)
(* Claims about SmartScraper.fetch                                         *)
(***************************************************************************)

\* C2: every network call that fetch issues is preceded, within the same
\* fetch, by a successful blocking rate-limiter acquire.
C2_AcquireBeforeRequest ==
    \A i \in 1..Len(ftrace) :
        ftrace[i] = "request" => \E j \in 1..(i - 1) : ftrace[j] = "acquire"

(***************************************************************************)
(* Claims about SmartScraper.crawl                                         *)
(***************************************************************************)

\* How many times crawl has called the fetcher for url.
FetchCount(url) == Cardinality({i \in 1..Len(fetchLog) : fetchLog[i].url = url})

\* The position of url in the sequence q, 0 if it is not in it.
IndexOf(q, url) ==
    IF url \in SeqToSet(q) THEN CHOOSE i \in 1..Len(q) : q[i] = url ELSE 0

\* C3: within one crawl the fetcher is invoked at most once for any URL,
\* whether that fetch succeeded or failed.
C3_FetchedAtMostOnce == \A url \in URLs : FetchCount(url) <= 1

\* C4: the crawl returns pages in breadth-first discovery order: if u was
\* first enqueued before v and both are in the result, u's page precedes v's.
C4_BfsOrder ==
    \A i, j \in 1..Len(firstEnq) :
        (/\ i < j
         /\ firstEnq[i] \in SeqToSet(results)
         /\ firstEnq[j] \in SeqToSet(results))
        => IndexOf(results, firstEnq[i]) < IndexOf(results, firstEnq[j])

\* C5: crawl returns at most max_pages pages, the number of returned pages
\* equals the number of visited URLs at every loop iteration, and no fetch is
\* started once max_pages pages have been fetched successfully.
C5_PageBudget ==
    /\ Len(results) <= max_pages
    /\ Len(results) = Cardinality(visited)
    /\ \A i \in 1..Len(fetchLog) : fetchLog[i].before < max_pages

\* the crawl stopped on its budget with URLs left in the frontier
C5_Witness ==
    /\ cpc = "done"
    /\ max_pages = 2
    /\ Len(results) = 2
    /\ to_visit # <<>>
    /\ \E i \in 1..Len(fetchLog) : ~fetchLog[i].ok

\* C6: with same_domain = true, no discovered link whose network location
\* differs from the start URL's is ever enqueued in the frontier or fetched.
C6_DomainScoping ==
    same_domain =>
        /\ \A i \in 1..Len(to_visit) : netloc(to_visit[i]) = netloc(start_url)
        /\ \A i \in 1..Len(fetchLog) : netloc(fetchLog[i].url) = netloc(start_url)
        /\ \A i \in 1..Len(firstEnq) : netloc(firstEnq[i]) = netloc(start_url)

\* a crawl that met a link to another network location and fetched on
C6_Witness ==
    /\ same_domain
    /\ cpc = "done"
    /\ \E u \in discovered : netloc(u) # netloc(start_url)
    /\ Len(results) >= 2

\* The step is an iteration of crawl in which scrape raised.
FailedIteration ==
    /\ Len(fetchLog') = Len(fetchLog) + 1
    /\ ~fetchLog'[Len(fetchLog')].ok

\* C19: if fetching or parsing one URL fails during a crawl, crawl does not
\* raise and does not stop: the URL is popped, nothing else changes, the
\* loop goes on, and crawl ends only when the frontier is empty or
\* max_pages is reached.
C19_FailureIsSkipped ==
    /\ [][FailedIteration =>
            /\ cpc' = "loop"
            /\ to_visit' = Tail(to_visit)
            /\ visited' = visited
            /\ results' = results
            /\ firstEnq' = firstEnq]_vars
    /\ [](cpc = "done" =>
            to_visit = <<>> \/ Cardinality(visited) >= max_pages)

\* crawl has ended; a scrape failed, and a URL that was in the frontier
\* then or was added later has been fetched after it
C19_Witness ==
    /\ cpc = "done"
    /\ \E i, j \in 1..Len(fetchLog) :
          /\ i < j
          /\ ~fetchLog[i].ok
          /\ fetchLog[j].ok
          /\ fetchLog[j].url # fetchLog[i].url

(***************************************************************************)
(* Claims about CacheManager                                               *)
(***************************************************************************)

\* C11: immediately after set(k, v, ttl) has(k) is true and get(k) returns
\* v; once the clock has advanced by more than the ttl given to that set
\* call, has(k) is false and get(k) returns absent.
C11_SetThenExpire ==
    /\ (cres.op = "set" /\ now = lastSet.at) =>
          /\ CacheHas(cache, lastSet.key)
          /\ CacheGet(cache, lastSet.key) = lastSet.val
    /\ (lastSet.set /\ now - lastSet.at > lastSet.ttl) =>
          /\ ~CacheHas(cache, lastSet.key)
          /\ CacheGet(cache, lastSet.key) = NoResponse

\* The key used least recently among the unexpired entries, a use being a
\* set or a successful get.
LeastRecentlyUsed ==
    SelectSeq(useOrder, LAMBDA k : make_key(k) \in KeysOf(Expire(cache)))[1]

\* the step is a set of a key that is not held, made when the cache holds
\* maxsize unexpired entries
SetWhenFull ==
    /\ cops' = cops + 1
    /\ cres'.op = "set"
    /\ Cardinality(Expire(cache)) = cmaxsize
    /\ make_key(cres'.key) \notin KeysOf(Expire(cache))

\* C12: the cache never holds more than maxsize entries; a set of one more
\* distinct key when maxsize unexpired keys are held leaves exactly maxsize
\* entries, and the entry that left is the least recently used one, a
\* successful get counting as a use.
C12_BoundedLru ==
    /\ [](Cardinality(cache) <= cmaxsize)
    /\ [][SetWhenFull =>
            /\ Cardinality(cache') = cmaxsize
            /\ KeysOf(cache') =
                  (KeysOf(Expire(cache)) \ {make_key(LeastRecentlyUsed)})
                  \cup {make_key(cres'.key)}]_vars

\* a set has pushed out an entry although an entry stored before it is
\* still held: that one has been read since
C12_Witness ==
    /\ cres.op = "set"
    /\ Cardinality(cache) = cmaxsize
    /\ \E o \in lastSet.out, e \in cache : e.expires < o.expires

(***************************************************************************)
(* Claims about the cache of SmartScraper.fetch                            *)
(***************************************************************************)

AtLookupWithEntry ==
    /\ use_cache
    /\ fpc \in {"has", "get"}
    /\ CacheHas(cache, cache_key(furl))

C17_SuccessSpeedsUp ==
    /\ FracLeq(current_rps, max_rps)
    /\ (nreports > 0 /\ last_status < 400) =>
          /\ current_rps =
                FracMin(max_rps, Frac(prev_rps.n * 11, prev_rps.d * 10))
          /\ FracLess(prev_rps, max_rps) => FracLess(prev_rps, current_rps)
          /\ prev_rps = max_rps => current_rps = max_rps

\* a success has brought current_rps up to max_rps
C17_Witness ==
    /\ nreports > 1
    /\ last_status < 400
    /\ current_rps = max_rps
    /\ FracLess(prev_rps, max_rps)

\* C18: a report of status 429 immediately sets current_rps to
\* max(min_rps, current_rps / 2) and replaces the bucket with one whose
\* refill rate is the new current_rps; current_rps never falls below
\* min_rps after any sequence of reports.
C18_ThrottleHalves ==
    /\ FracLeq(min_rps, current_rps)
    /\ (nreports > 0 /\ last_status = 429) =>
          /\ current_rps =
                FracMax(min_rps, Frac(prev_rps.n, prev_rps.d * 2))
          /\ abucket.rate = current_rps
          /\ abucket.capacity = (2 * current_rps.n) \div current_rps.d
          /\ abucket.tokens = Frac(abucket.capacity, 1)

\* a 429 has brought current_rps down to min_rps
C18_Witness ==
    /\ nreports > 0
    /\ last_status = 429
    /\ current_rps = min_rps
    /\ FracLess(min_rps, prev_rps)

(***************************************************************************)
(* Claims about AsyncScraper                                               *)
(***************************************************************************)

\* The fetch of task i succeeded: it returned the response of a request of
\* its own.
Succeeded(i) ==
    /\ aresult[i].kind = "return"
    /\ aresult[i].val.of = i
    /\ aresult[i].val.status \in OkStatuses

\* The fetch or the validation of task i failed.
Failed(i) == aresult[i].kind = "raise"

\* the responses of the tasks from i on that succeeded, in list order
RECURSIVE SuccessesFrom(_)
SuccessesFrom(i) ==
    IF i > Len(aurls) THEN <<>>
    ELSE IF Succeeded(i) THEN <<aresult[i].val>> \o SuccessesFrom(i + 1)
    ELSE SuccessesFrom(i + 1)

\* C15: fetch_many returns exactly the results of the URLs whose fetch
\* succeeded, in the order of the input list; a URL that fails is left out
\* and fails no sibling, so the result is shorter than the list exactly when
\* at least one URL failed.
C15_ExactlySuccesses ==
    apc = "done" =>
        /\ aresults = SuccessesFrom(1)
        /\ \A i \in Tasks :
              (Failed(i) /\ validate(aurls[i])) => areqs[i] > 0
        /\ Len(aresults) < Len(aurls) <=> \E i \in Tasks : Failed(i)

\* The fetches past admission: in their politeness delay, their network
\* attempt or their backoff sleep.
InFlight == {i \in Tasks : tpcs[i] \in {"delay", "request", "backoff"}}

\* C16: at every moment the number of fetches past admission is at most
\* max_concurrent, for any number of URLs and any interleaving of task
\* completions and failures.
C16_ConcurrencyBound == Cardinality(InFlight) <= amax_concurrent

\* max_concurrent fetches are in flight, one more waits, one has failed
C16_Witness ==
    /\ Cardinality(InFlight) = amax_concurrent
    /\ \E i \in Tasks : tpcs[i] = "wait"
    /\ \E i \in Tasks : Failed(i) /\ areqs[i] > 0

(***************************************************************************)
(* Claims about fetch of both scrapers                                     *)
(***************************************************************************)

\* The URL is malformed, or its scheme is not an allowed one.
Malformed(url) == url.netloc = "" \/ url.scheme \notin {"http", "https"}

\* C20: fetch, sequential and concurrent, on a malformed URL or a URL whose
\* scheme is not allowed fails with a validation error before any cache
\* lookup, politeness delay, rate-limiter acquire or network call, is never
\* retried, and leaves the cache, the limiter and the semaphore as they are.
C20_ValidationFirst ==
    /\ [](Malformed(furl) =>
            /\ fpc \in {"validate", "raised"}
            /\ calls = <<>> /\ sleeps = <<>> /\ rpc = "idle"
            /\ fpc = "raised" =>
                  fresult = Raised(ValueError) /\ ftrace = <<"validate">>)
    /\ [][(Malformed(furl) /\ fpc = "validate") =>
            /\ cache' = cache /\ lru' = lru
            /\ tokens' = tokens /\ acalls' = acalls]_vars
    /\ [](\A i \in Tasks :
            Malformed(aurls[i]) =>
                /\ tpcs[i] \in {"validate", "raised"}
                /\ areqs[i] = 0 /\ aattempt[i] = 0
                /\ tpcs[i] = "raised" => aresult[i] = ARaised(ValueError))
    /\ [][\A i \in Tasks :
            (Malformed(aurls[i]) /\ tpcs'[i] # tpcs[i]) => sem' = sem]_vars

\* a fetch of a URL that is not allowed has raised, with caching enabled
\* and an entry in the cache
C20_Witness ==
    /\ Malformed(furl)
    /\ fpc = "raised"
    /\ use_cache
    /\ cache # {}

(***************************************************************************)
(* Claims about the sequential fetch and HTTP error statuses               *)
(***************************************************************************)

\* the statuses the retry policy of fetch is said to cover
RetryableStatus(status) == status = 429 \/ (status >= 500 /\ status < 600)

\* the response the request of the running fetch returned, if it did
GotRetryableStatus ==
    /\ calls # <<>>
    /\ calls[Len(calls)].kind = "return"
    /\ RetryableStatus(calls[Len(calls)].val)

\* C21: when the transport succeeds but the response status is 429 or 5xx,
\* the sequential fetch re-attempts the request under the retry policy: the
\* failing status reaches the caller as an error only after
\* max_retries + 1 attempts with a backoff sleep between them, and such a
\* response is never returned as a successful result.
C21_StatusRetried ==
    /\ (fpc = "returned" /\ fresult.kind = "return") =>
          ~RetryableStatus(fresult.val)
    /\ (fpc = "raised" /\ GotRetryableStatus) =>
          /\ Len(calls) = max_retries + 1
          /\ Len(sleeps) = max_retries

(***************************************************************************)
(* Claims about concurrent callers of TokenBucket.acquire                  *)
(***************************************************************************)

\* the value the elapsed-time refill gives tokens at this moment
RefillNow ==
    IF tokens + (now - last_update) * rate < capacity
      THEN tokens + (now - last_update) * rate
      ELSE capacity

\* this step is a call of acquire
AcquireCalled == acalls' = acalls + 1

\* C22: a non-blocking acquire that finds fewer tokens than the requested
\* cost returns false without sleeping and without deducting: afterwards
\* tokens is the value the elapsed-time refill alone gives.
C22_DenyLeavesTokens ==
    [][(AcquireCalled /\ ~acq'.blocking /\ RefillNow < acq'.cost) =>
          /\ denied' = denied + 1
          /\ granted' = granted
          /\ tokens' = RefillNow
          /\ tpc' = tpc
          /\ now' = now]_vars

\* a non-blocking acquire has just been refused on a bucket that a refill
\* had brought above its last level
C22_Witness ==
    /\ denied > 0
    /\ ~acq.blocking
    /\ tokens < acq.cost
    /\ tokens > 0
    /\ last_update = now
    /\ now > 0
    /\ \A t \in Threads : tpc[t] = "idle"

\* C26: with several threads calling acquire concurrently on one bucket,
\* blocking or not, the total cost of the acquires that have returned true
\* by time t never exceeds capacity + rate * (t - t0), t0 = 0 being the
\* time the bucket was created: two callers that blocked on the same
\* deficit are never both granted the same refilled tokens.
C26_GrantsWithinRefill == granted <= capacity + rate * now

(***************************************************************************)
(* Claims about delete and clear of the response cache                     *)
(***************************************************************************)

\* the entries of c under other keys than k
Others(c, k) == {e \in c : e.key # make_key(k)}

\* C25: delete(k) makes has(k) false and get(k) absent and leaves the entry
\* of every other key unchanged; delete of a key that is absent is a no-op
\* that raises nothing; after clear() no key is present.
C25_DeleteAndClear ==
    /\ [][(cops' = cops + 1 /\ cres'.op = "delete") =>
            /\ now' = now
            /\ ~CacheHas(cache', cres'.key)
            /\ CacheGet(cache', cres'.key) = NoResponse
            /\ Others(cache', cres'.key) = Others(cache, cres'.key)
            /\ ~CacheHas(cache, cres'.key) => cache' = cache]_vars
    /\ [][(cops' = cops + 1 /\ cres'.op = "clear") =>
            /\ now' = now
            /\ \A k \in CacheKeys :
                  ~CacheHas(cache', k) /\ CacheGet(cache', k) = NoResponse
            /\ cache' = {}]_vars

\* the key stored last has been deleted before it expired, and the entry
\* of another key is still held
C25_Witness ==
    /\ cres.op = "delete"
    /\ lastSet.set
    /\ lastSet.key = cres.key
    /\ now < lastSet.at + cttl
    /\ ~CacheHas(cache, cres.key)
    /\ \E k \in CacheKeys : k # cres.key /\ CacheHas(cache, k)

(***************************************************************************)
(* Claims about the frontier of crawl                                      *)
(***************************************************************************)

\* C30: at every point of a crawl the frontier queue holds no URL twice and
\* no URL that is already in visited (a link is enqueued only if it is
\* neither visited nor already pending), and the visited set never loses
\* an element during the crawl.
C30_FrontierClean ==
    /\ [](\A i, j \in 1..Len(to_visit) : to_visit[i] = to_visit[j] => i = j)
    /\ [](\A i \in 1..Len(to_visit) : to_visit[i] \notin visited)
    /\ [][visited \subseteq visited']_vars

(***************************************************************************)
(* Claims about what crawl returns                                         *)
(***************************************************************************)

\* C23: what crawl returns lets the caller identify each URL whose fetch
\* failed: of two crawls of the same site with the same arguments that
\* return the same value, one has a failed page exactly when the other has
\* it, so that a failed page is told from a page that was never linked and
\* from a page that was fetched and had no links.
C23_FailuresIdentifiable ==
    (cpc = "done" /\ first.done /\ soups = first.soups) =>
        FailedUrls = first.failed

(***************************************************************************)
(* Claims about a failing cache                                            *)
(***************************************************************************)

\* C24: if a cache operation (has, get or set) fails during a fetch for
\* which a cache is configured, fetch continues in no-cache mode: it goes
\* on to the network fetch and returns its result instead of failing, and a
\* failing store after a successful network call does not turn the fetch
\* into an error.
C24_CacheFailureTolerated ==
    /\ [](fresult # Raised(CacheError))
    /\ [][(fpc \in {"has", "get"} /\ fpc' = "raised") =>
             fresult' = Raised(ValueError)]_vars
    /\ [][(fpc = "execute" /\ rpc = "returned" /\ fpc' # fpc
             /\ ~(rresult.val >= 400 /\ rresult.val < 600)) =>
             (fpc' = "returned" /\ fresult' = rresult)]_vars

(***************************************************************************)
(* Claims about SlidingWindowRateLimiter                                   *)
(***************************************************************************)

\* the timestamps of the deque that are not older than now - window
Kept == SelectSeq(requests, LAMBDA ts : ts >= now - window_seconds)

\* the number of admitted requests with a timestamp in [T - window, T]
AdmittedIn(T) ==
    Cardinality({i \in 1..Len(admitted) :
                    admitted[i] >= T - window_seconds /\ admitted[i] <= T})

\* this step admits a request
Admits == Len(admitted') = Len(admitted) + 1

\* C28: after any interleaving of acquire calls from any number of callers
\* and clock advances, at most max_requests admitted requests have
\* timestamps within any trailing interval of window_seconds; acquire
\* admits exactly when, after discarding the timestamps older than
\* now - window, fewer than max_requests remain, and a non-blocking acquire
\* on a full window returns false without recording a timestamp.
C28_WindowBound ==
    /\ [](\A T \in 0..now : AdmittedIn(T) <= max_requests)
    /\ [][wcalls' = wcalls + 1 => (Admits <=> Len(Kept) < max_requests)]_vars
    /\ [][Admits =>
            /\ Len(Kept) < max_requests
            /\ requests' = Append(Kept, now)
            /\ admitted' = Append(admitted, now)]_vars
    /\ [][(wcalls' = wcalls + 1 /\ ~wacq' /\ Len(Kept) >= max_requests) =>
            /\ wdenied' = wdenied + 1
            /\ requests' = Kept
            /\ admitted' = admitted
            /\ wpc' = wpc]_vars

\* a non-blocking acquire has been refused on a full window after an older
\* timestamp had left the window and its slot had been given again
C28_Witness ==
    /\ wdenied > 0
    /\ ~wacq
    /\ Len(requests) = max_requests
    /\ Len(admitted) > max_requests

(***************************************************************************)
(* Claims about the lock of the limiters                                   *)
(***************************************************************************)

\* a caller is inside the time.sleep of a blocking acquire of the bucket,
\* of the sliding window
BucketSleeper == \E t \in Threads : tpc[t] = "sleep"
WindowSleeper == \E t \in Threads : wpc[t] = "sleep"

\* a caller enters acquire of the bucket, of the sliding window
EntersBucket ==
    \E t \in Threads, cost \in 1..MaxCost, blocking \in BOOLEAN :
        AcquireEnter(t, cost, blocking)
EntersWindow ==
    \E t \in Threads, blocking \in BOOLEAN : WindowEnter(t, blocking)

\* C27: while one caller is sleeping inside a blocking acquire (token
\* bucket or sliding window) the limiter's lock is not held: another
\* caller can enter acquire during that sleep and, if enough tokens or a
\* free slot exist, it returns true at once, the sleeper still asleep.
C27_SleepOutsideLock ==
    /\ []((BucketSleeper /\ acalls < MaxAcquires
             /\ \E t \in Threads : tpc[t] = "idle") => ENABLED EntersBucket)
    /\ []((WindowSleeper /\ wcalls < MaxAcquires
             /\ \E t \in Threads : wpc[t] = "idle") => ENABLED EntersWindow)
    /\ [][(BucketSleeper /\ AcquireCalled /\ RefillNow >= acq'.cost) =>
            /\ granted' = granted + acq'.cost
            /\ tpc' = tpc
            /\ now' = now]_vars
    /\ [][(WindowSleeper /\ wcalls' = wcalls + 1
             /\ Len(Kept) < max_requests) =>
            /\ admitted' = Append(admitted, now)
            /\ wpc' = wpc
            /\ now' = now]_vars

\* one caller sleeps in acquire of the bucket and the call made last, by
\* another caller, was granted
C27_Witness ==
    /\ acalls = 2
    /\ \E t \in Threads : tpc[t] = "sleep" /\ tcost[t] # acq.cost
    /\ granted = acq.cost
    /\ denied = 0

\* one caller sleeps in acquire of the sliding window and a call made
\* during its sleep was admitted
C27_WitnessWindow ==
    /\ max_requests = 1
    /\ admitted # <<>>
    /\ \E t \in Threads :
          /\ wpc[t] = "sleep"
          /\ admitted[Len(admitted)] + window_seconds > wuntil[t]

(***************************************************************************)
(* Claims about concurrent workers of AdaptiveRateLimiter                  *)
(***************************************************************************)

\* one report_response applied to the rate r on its own
Applied(r, status_code) ==
    IF status_code = 429 THEN FracMax(min_rps, FracTimes(r, Frac(1, 2)))
    ELSE IF status_code < 400
      THEN FracMin(max_rps, FracTimes(r, Frac(11, 10)))
      ELSE r

\* the rates that the reports numbered in I give from r, applied one after
\* the other in some order
RECURSIVE InSomeOrder(_, _)
InSomeOrder(r, I) ==
    IF I = {} THEN {r}
    ELSE UNION {InSomeOrder(Applied(r, reports[i]), I \ {i}) : i \in I}

\* no worker is inside report_response
Quiescent == \A w \in Threads : kpc[w] = "idle"

\* C29: when report_response calls run concurrently, the resulting
\* current_rps equals the result of applying the reports in some
\* sequential order (no lost update), and in every quiescent state the
\* installed bucket's rate equals current_rps.
C29_NoLostUpdate ==
    Quiescent =>
        /\ current_rps \in InSomeOrder(initial_rps, 1..Len(reports))
        /\ abucket.rate = current_rps

(***************************************************************************)
(* Claims about the attempts of the concurrent fetch                       *)
(***************************************************************************)

\* the fetch of task i is over
Ended(i) == tpcs[i] \in {"returned", "raised"}

\* C34: for every max_retries >= 0 the concurrent fetch either returns a
\* response obtained from at least one network attempt or raises an error;
\* it never completes with no result and no error, so fetch_many never has
\* None among the results it returns.
C34_NeverNone ==
    /\ \A i \in Tasks :
          Ended(i) =>
              \/ aresult[i].kind = "raise"
              \/ /\ aresult[i].kind = "return"
                 /\ aresult[i].val # NoneResp
                 /\ areqs[i] >= 1
    /\ apc = "done" =>
          \A j \in 1..Len(aresults) : aresults[j] # NoneResp

\* C31: for the same max_retries a fetch of the concurrent fetcher makes as
\* many network attempts as execute does in the sequential fetcher: when
\* every attempt fails, max_retries + 1 attempts are made, with a backoff
\* sleep between consecutive attempts, and the last failure is raised.
C31_SameAttempts ==
    /\ (fpc = "raised" /\ rpc = "raised") =>
          /\ Len(calls) = max_retries + 1
          /\ Len(sleeps) = max_retries
          /\ fresult = calls[Len(calls)]
    /\ \A i \in Tasks :
          (tpcs[i] = "raised" /\ aresult[i] # ARaised(ValueError)) =>
              /\ areqs[i] = amax_retries + 1
              /\ aattempt[i] = amax_retries

(* Claims about the link filter of crawl *)
\* link is the start URL or a URL the predicate of crawl accepts
PassesFilter(link) == link = start_url \/ link \in link_filter.accept

\* C32: when a link_filter predicate is given to crawl, no discovered link
\* for which the predicate returns false is ever enqueued or fetched; only
\* the start URL is enqueued and fetched without being tested, and it is
\* fetched as the start of the crawl only, never as a link that was followed.
C32_FilterRespected ==
    link_filter.given =>
        /\ \A i \in 1..Len(to_visit) : PassesFilter(to_visit[i])
        /\ \A i \in 1..Len(firstEnq) : PassesFilter(firstEnq[i])
        /\ \A i \in 1..Len(fetchLog) : PassesFilter(fetchLog[i].url)
        /\ \A i \in 1..Len(results) : PassesFilter(results[i])
        /\ \A i \in 2..Len(fetchLog) : fetchLog[i].url # start_url

\* a finished crawl that met a link its predicate refuses and followed others
C32_Witness ==
    /\ link_filter.given
    /\ start_url \notin link_filter.accept
    /\ cpc = "done"
    /\ start_url \in discovered
    /\ \E u \in discovered : ~PassesFilter(u)
    /\ results[1] = start_url
    /\ Len(results) >= 2

(* Claims about the order of attempts and sleeps in execute *)
\* sleep number j of execute was computed by calculate_delay(j - 1)
SleepFor(j) ==
    /\ sleeps[j][1] = j - 1
    /\ \E r \in 0..RandSteps : sleeps[j][2] = calculate_delay(j - 1, r)

\* C38: if attempt k (counting from 0) is the first attempt of execute that
\* succeeds, execute returns that attempt's result after exactly k failed
\* attempts and exactly k backoff sleeps, whose delays were computed for
\* attempts 0..k-1 in that order, and makes no further attempt; when the
\* retries are exhausted no sleep follows the last failed attempt.
C38_FirstSuccessReturns ==
    /\ \A n \in 1..Len(calls) :
          calls[n].kind = "return" =>
              /\ n = Len(calls)
              /\ rpc = "returned"
              /\ rresult = calls[n]
              /\ \A j \in 1..(n - 1) : RetryableFailure(j)
              /\ Len(sleeps) = n - 1
              /\ \A j \in 1..Len(sleeps) : SleepFor(j)
    /\ rpc = "raised" =>
          /\ Len(sleeps) = Len(calls) - 1
          /\ \A j \in 1..Len(sleeps) : SleepFor(j)
    /\ (rpc = "raised" /\ AllRetryableFailures) => Len(sleeps) = max_retries

\* the third attempt of execute succeeded after two failures and two sleeps
C38_Witness ==
    /\ rpc = "returned"
    /\ Len(calls) = 3
    /\ Len(sleeps) = 2
    /\ sleeps[1][2] # sleeps[2][2]

\* every attempt of execute failed, the last one without a sleep after it
C38_WitnessExhausted ==
    /\ rpc = "raised"
    /\ AllRetryableFailures
    /\ max_retries = 2
    /\ Len(sleeps) = 2

(* Claims about the bucket of the adaptive limiter in use *)
\* floor(2 * r) + r * T for a rate r and a number T of seconds, as a fraction
BurstPlusRate(r, T) ==
    FracPlus(Frac(FracInt(FracTimes(r, Frac(2, 1))), 1), FracTimes(r, Frac(T, 1)))

\* the acquires number i to j were admitted at the rate r at most
AdmittedWithin(r, i, j) ==
    FracLeq(Frac(j - i + 1, 1), BurstPlusRate(r, ladmitted[j] - ladmitted[i]))

\* the step is a report_response that installed a new bucket
Replaces == nreports' = nreports + 1 /\ Adjusts(last_status')

\* C36: replacing the bucket in report_response grants no extra tokens (the
\* new bucket holds no more than the replaced one would after its refill):
\* in any interleaving of acquire and report_response the requests admitted
\* over an interval of length T are at most floor(2 * max_rps) + max_rps * T.
C36_NoExtraTokens ==
    /\ [](\A i, j \in 1..Len(ladmitted) :
             i <= j => AdmittedWithin(max_rps, i, j))
    /\ [][Replaces =>
            FracLeq(abucket'.tokens, BucketRefilled(abucket).tokens)]_vars

\* the step is a report_response of a status that is 400 or above and not 429
ReportsOtherError ==
    /\ nreports' = nreports + 1
    /\ last_status' >= 400
    /\ last_status' # 429

\* C39: report_response with a status that is 400 or above and not 429
\* leaves the adaptive limiter unchanged: current_rps, the installed bucket,
\* and that bucket's tokens and last-refill time are as before the call.
C39_OtherErrorsChangeNothing ==
    [][ReportsOtherError =>
          /\ current_rps' = current_rps
          /\ abucket' = abucket
          /\ abucket'.tokens = abucket.tokens
          /\ abucket'.last_update = abucket.last_update
          /\ <<min_rps, max_rps>>' = <<min_rps, max_rps>>]_vars

\* a 500 was reported on a limiter whose bucket had been drawn from and
\* not refilled since an earlier tick
C39_Witness ==
    /\ last_status = 500
    /\ prev_rps = current_rps
    /\ ladmitted # <<>>
    /\ FracLess(abucket.tokens, Frac(abucket.capacity, 1))
    /\ abucket.last_update < now

(* Claims about the cache lookup of the sequential fetch *)
\* C35: with caching enabled the sequential fetch never returns an absent
\* value: if the entry of the URL expires or is evicted between the has
\* check and the get that follows it, fetch does not return the empty
\* result of get as if it were a cached response.
C35_NeverAbsent ==
    (use_cache /\ fpc = "returned") =>
        /\ fresult.kind = "return"
        /\ fresult.val # NoResponse

(* Claims about the sequential fetch_many *)
\* the fetch of urls[i] failed: it raised
FetchFailed(i) == mlog[i].kind = "raise"

\* the results so far stand at the positions of their URLs
ManyPositional ==
    /\ Len(mresults) <= Len(murls)
    /\ Len(mlog) = Len(mresults)
    /\ \A i \in 1..Len(mresults) :
          mresults[i] # None =>
              /\ mresults[i].url = murls[i]
              /\ mlog[i] = Returned(mresults[i].status)

\* C37: the sequential fetch_many returns a list of the same length as its
\* input in which position i holds the response for urls[i], or None if
\* that fetch failed; a failing URL never aborts the batch and never shifts
\* the positions of later results.
C37_ResultsAligned ==
    /\ ManyPositional
    /\ \A i \in 1..Len(mresults) : mresults[i] = None <=> FetchFailed(i)
    /\ (nfetch = Len(mresults) /\ Len(mresults) < Len(murls)) =>
          ENABLED ManyFetch

(* Claims about the termination of crawl *)
\* how many times crawl called the fetcher for url and it raised
FailCount(url) ==
    Cardinality({i \in 1..Len(fetchLog) : fetchLog[i].url = url /\ ~fetchLog[i].ok})

\* the most fetch attempts a crawl can make: the start URL, and the links
\* of each page fetched
MostFetches == 1 + max_pages * MaxLinks

\* C33: crawl terminates for every finite link graph and every max_pages,
\* also when some URLs fail on every fetch and are linked from many pages
\* or from themselves: eventually the frontier is empty or max_pages pages
\* have been fetched, and the number of fetch attempts is finite.
C33_CrawlTerminates ==
    /\ <>(cpc = "done")
    /\ [](cpc = "done" =>
             (to_visit = <<>> \/ Cardinality(visited) >= max_pages))
    /\ [](Len(fetchLog) <= MostFetches)

\* a finished crawl in which one URL, linked from two pages, failed twice
C33_Witness ==
    /\ cpc = "done"
    /\ \E u \in URLs : FailCount(u) >= 2
    /\ Len(results) >= 2

====
